---- MODULE Spec2Model ----
(***************************************************************************)
(* Verification model of the pushpin realtime relay:                       *)
(*   - the Update Log Store (Redis list + snapshot, with compaction), in   *)
(*     its two implementations: createRedisPersistence ("peer") and the    *)
(*     yjs-redis helpers loadDoc/saveUpdate/compactDoc ("doc");            *)
(*   - the Sync Protocol Relay handlers that use them;                     *)
(*   - the Subscription Bridge (S2 stream -> Pushpin publish socket).      *)
(* A CRDT document is modelled as the set of operations it contains and    *)
(* Y.applyUpdate as set union (idempotent, commutative merge).             *)
(***************************************************************************)
EXTENDS Integers, Sequences, FiniteSets, TLC

\* ------------------------------------------------------------------ bounds
MaxOps == 2
MaxMessages == 3
MaxSerialMessages == 5
MaxFailures == 1
compactionThreshold == 2
MaxSubscribers == 2
MaxRecords == 2
MaxReadFailures == 1
MaxSessionMessages == 2

Ops == 1..MaxOps
Rooms == {"r1"}
Procs == {"c1", "c2"}
Impls == {"peer", "doc"}
Topics == {"t1"}
\* AbortControllers created over a run, in order of creation: one per
\* upstream subscription opened.
Controllers == {1, 2}
\* Record bodies: the empty body and a non-empty one.
Bodies == {"", "m"}
\* The three request handlers of the repository, with and without a
\* persistence provider ("doc" always uses its Redis helpers).
Deployments ==
    {[handler |-> h, persistence |-> b] : h \in {"peer", "ws"}, b \in BOOLEAN}
    \cup {[handler |-> "doc", persistence |-> TRUE]}
\* Collaboration-client ids carried by awareness changes.
ClientIds == {0, 1}
\* The clocks the awareness changes of client 1 carry.
Clocks == {1, 2}

\* ------------------------------------------------- protocol constants
messageSync == 0
messageAwareness == 1
messageYjsSyncStep1 == 0
messageYjsSyncStep2 == 1
messageYjsUpdate == 2

\* An encoded Yjs update (or encoded document state): the operations it carries.
Blobs == (SUBSET Ops) \ {{}}
\* A state vector: the operations the sender already has.
StateVectors == SUBSET Ops

\* A decoded message: the outer tag, the inner tag of a sync message, the
\* update or state vector it carries, and the changes of an awareness payload.
SyncMessage(inner, payload) ==
    [outer |-> messageSync, inner |-> inner, payload |-> payload, changes |-> <<>>]
encodeSyncStep2(update) == SyncMessage(messageYjsSyncStep2, update)

\* Messages a client may send in this model.
InMessages ==
    {SyncMessage(messageYjsSyncStep1, sv) : sv \in {{}, Ops}}
    \cup {SyncMessage(messageYjsSyncStep2, b) : b \in {Ops}}
    \cup {SyncMessage(messageYjsUpdate, b) : b \in {{o} : o \in Ops}}

NoMessage == [outer |-> -1, inner |-> -1, payload |-> {}, changes |-> <<>>]
IsStep1(m) == m.outer = messageSync /\ m.inner = messageYjsSyncStep1
\* Mutant: every sync message that is not a STEP1 is taken for an update.
IsUpdate_AnyInner(m) == m.outer = messageSync /\ m.inner # messageYjsSyncStep1

IsUpdate(m) == m.outer = messageSync /\ m.inner \in {messageYjsSyncStep2, messageYjsUpdate}

\* An awareness message: its payload is a list of changes.
AwarenessMessage(changes) ==
    [outer |-> messageAwareness, inner |-> -1, payload |-> {}, changes |-> changes]
\* One change of an awareness payload.
Change(clientId, clock, state) == [clientID |-> clientId, clock |-> clock, state |-> state]
IsAwareness(m) == m.outer = messageAwareness
\* An outer tag other than sync and awareness, or a sync message whose inner
\* tag is none of step 1, step 2 and update.
IsUnknown(m) ==
    \/ m.outer \notin {messageSync, messageAwareness}
    \/ /\ m.outer = messageSync
       /\ m.inner \notin {messageYjsSyncStep1, messageYjsSyncStep2, messageYjsUpdate}

\* const emptyStateVector = new Uint8Array([0])
emptyStateVector == {}
encodeSyncStep1(stateVector) == SyncMessage(messageYjsSyncStep1, stateVector)

\* Messages a client may send to a connection in the session model: STEP1 with
\* an empty and a full state vector, single-operation updates, awareness
\* payloads of one change (client 1 at each clock) and of two changes, an
\* unknown outer tag and an unknown inner tag.
SessionMessages ==
    {encodeSyncStep1(sv) : sv \in {{}, Ops}}
    \cup {SyncMessage(messageYjsUpdate, {o}) : o \in Ops}
    \cup {AwarenessMessage(<<Change(id, 1, "s")>>) : id \in ClientIds}
    \cup {AwarenessMessage(<<Change(1, clock, "s")>>) : clock \in Clocks}
    \cup {AwarenessMessage(<<Change(0, 1, "s"), Change(1, 1, "s")>>)}
    \cup {[outer |-> 2, inner |-> -1, payload |-> {}, changes |-> <<>>]}
    \cup {SyncMessage(3, {o}) : o \in {1}}

\* ------------------------------------------------------------ store values
\* The snapshot key: absent, or an encoded state.  ids is history: the raw-log
\* positions of the updates merged into the stored state.
NoSnapshot == [present |-> FALSE, state |-> {}, ids |-> {}]
\* The absent-state marker (null) and a loaded state.
Null == [present |-> FALSE, state |-> {}]
State(d) == [present |-> TRUE, state |-> d]

RECURSIVE MergeBlobs(_)
\* for (const update of updates) Y.applyUpdate(doc, update)
MergeBlobs(s) == IF s = <<>> THEN {} ELSE Head(s) \cup MergeBlobs(Tail(s))

EntryBlobs(entries) == [i \in 1..Len(entries) |-> entries[i].blob]
EntryIds(entries) == {entries[i].id : i \in 1..Len(entries)}

\* A fresh Y.Doc with the snapshot (if any) and then every list entry applied.
MergedDoc(snap, entries) ==
    (IF snap.present THEN snap.state ELSE {}) \cup MergeBlobs(EntryBlobs(entries))

\* getState's return value: null when the merged document holds no client.
GetStateReturn_AlwaysState(d) == State(d)
GetStateReturn(d) == IF d = {} THEN Null ELSE State(d)

\* Mutant: compaction merges the pending updates only, dropping the old snapshot.
NewSnapshot_DropsOldSnapshot(snap, entries) ==
    [present |-> TRUE,
     state |-> MergeBlobs(EntryBlobs(entries)),
     ids |-> EntryIds(entries)]

\* The snapshot compaction writes: Y.encodeStateAsUpdate of the merged doc.
NewSnapshot(snap, entries) ==
    [present |-> TRUE,
     state |-> MergedDoc(snap, entries),
     ids |-> snap.ids \cup EntryIds(entries)]

\* syncProtocol.writeSyncStep2(encoder, doc, stateVector): what the peer lacks.
\* Mutant: the answer ignores the state vector and carries the whole document.
DiffAgainst_IgnoresVector(d, sv) == d

DiffAgainst(d, sv) == d \ sv

VARIABLES
    impl,        \* which persistence implementation this deployment runs
    snapshot,    \* room -> snapshot key
    updates,     \* room -> pending update list (entries [id, blob])
    published,   \* publish calls made to the proxy, in order
    pc,          \* handler invocation -> position
    room,        \* handler invocation -> room of the request
    msg,         \* handler invocation -> message being processed
    rdSnap,      \* handler invocation -> snapshot read from Redis
    rdUpd,       \* handler invocation -> list read from Redis
    res,         \* handler invocation -> state obtained by the last load
    out,         \* handler invocation -> outgoing events of the response
    persist,     \* handler invocation -> persist of msg: "none", "ok" or "error"
    npub,        \* handler invocation -> publish calls made for msg
    nmsgs,       \* messages received so far
    nfail,       \* store failures injected so far
    rawLog,      \* history: room -> every update ever appended, in order
    acked,       \* history: room -> operations of updates processed without error
    duringCompaction, \* history: room -> ids appended while a compaction held its read
    ncompact,    \* history: room -> compactions completed
    began,       \* history: handler invocation -> the room's log when its load began
    subscriberCounts,    \* topic -> number of active subscribers (0: no entry)
    activeSubscriptions, \* topic -> AbortController of its subscription (0: no entry)
    nctrl,       \* AbortControllers created so far
    topicOf,     \* controller -> topic it was created for
    aborted,     \* controller -> signal.aborted
    task,        \* controller -> position of subscribeToS2Stream's async body
    cursor,      \* controller -> records of the log its read has delivered
    batch,       \* controller -> records of the current batch still to forward
    s2log,       \* topic -> records of the S2 stream
    sent,        \* controller -> messages its loop sent on publishSocket, in order
    live,        \* history: topic -> records appended while the count was above 0
    peak,        \* history: topic -> highest subscriber count reached
    nreadfail,   \* read failures injected so far
    deployment,  \* which handler serves the room, and whether it has persistence
    conn,        \* connection -> "new", "active", "closed" or "failed"
    connections, \* room -> connection id -> entry of the connections hash
    request,     \* the request handled last: connection, event, message
    response,    \* calls made on wsContext while handling it, in order
    nreqs,       \* message events handled so far
    pos,         \* connection -> position of its handler invocation
    arrived,     \* history: connection -> events of the request body, as decoded
    unread,      \* connection -> events recvRaw() has not returned yet
    handled,     \* history: connection -> events of the request handled so far
    connectionId,   \* Connection-Id header of the request the chat endpoint handles
    reqText,        \* its body (req.text()), one character per element
    at,             \* where the chat endpoint is: "idle", "parse", "events"; or "encode"
    offset,         \* parseWebSocketEvents: offset
    wsEvents,       \* parseWebSocketEvents: events pushed so far; then GET's events
    evIdx,          \* GET: index of the event the for loop handles next
    responseEvents, \* GET: responseEvents
    connState,      \* Redis: connection id -> value of conn:<id>
    storeError,     \* history: the store call that failed in the last handler step
    appended,       \* records appended to S2 by publishToChannel, in order
    nsock,          \* requests received by the chat endpoint so far
    plain,          \* the events handed to encodeWebSocketEvent, in order
    nenc,           \* how many of them have been encoded
    awareness,      \* Redis: room -> hash yjs:awareness:<room>, client id -> state
    deadline,       \* Redis: room -> time left before the hash expires, or NoTTL
    since,          \* history: room -> client id -> time since its state was last stored
    quiet,          \* history: room -> time since the hash's TTL was last set
    expireFailed,   \* history: room -> an EXPIRE of the hash it has now was rejected
    called          \* history: the storeAwarenessState call of the last step, if any

storeVars == <<snapshot, updates>>
procVars == <<pc, room, msg, rdSnap, rdUpd, res, out, persist, npub>>
histVars == <<rawLog, acked, duringCompaction, ncompact>>
relayVars == <<impl, snapshot, updates, published, pc, room, msg, rdSnap, rdUpd, res, out,
               persist, npub, nmsgs, nfail, rawLog, acked, duringCompaction, ncompact, began>>
bridgeVars == <<subscriberCounts, activeSubscriptions, nctrl, topicOf, aborted, task, cursor,
                batch, s2log, sent, live, peak, nreadfail>>
sessionVars == <<deployment, conn, connections, request, response, nreqs, pos, arrived,
                 unread, handled>>
chatVars == <<connectionId, reqText, at, offset, wsEvents, evIdx, responseEvents, connState,
              storeError, appended, nsock, plain, nenc>>
awarenessVars == <<awareness, deadline, since, quiet, expireFailed, called>>
vars == <<relayVars, bridgeVars, sessionVars, chatVars, awarenessVars>>

\* No load of the invocation is under way.
NoLoad == [appended |-> 0, compactions |-> 0]

RelayInit ==
    /\ impl \in Impls
    /\ snapshot = [r \in Rooms |-> NoSnapshot]
    /\ updates = [r \in Rooms |-> <<>>]
    /\ published = <<>>
    /\ pc = [p \in Procs |-> "idle"]
    /\ room = [p \in Procs |-> CHOOSE r \in Rooms : TRUE]
    /\ msg = [p \in Procs |-> NoMessage]
    /\ rdSnap = [p \in Procs |-> NoSnapshot]
    /\ rdUpd = [p \in Procs |-> <<>>]
    /\ res = [p \in Procs |-> Null]
    /\ out = [p \in Procs |-> <<>>]
    /\ persist = [p \in Procs |-> "none"]
    /\ npub = [p \in Procs |-> 0]
    /\ nmsgs = 0
    /\ nfail = 0
    /\ rawLog = [r \in Rooms |-> <<>>]
    /\ acked = [r \in Rooms |-> {}]
    /\ duringCompaction = [r \in Rooms |-> {}]
    /\ ncompact = [r \in Rooms |-> 0]
    /\ began = [p \in Procs |-> NoLoad]

\* The module-level state of the pubsub service when it starts.
BridgeInit ==
    /\ subscriberCounts = [t \in Topics |-> 0]
    /\ activeSubscriptions = [t \in Topics |-> 0]
    /\ nctrl = 0
    /\ topicOf = [c \in Controllers |-> CHOOSE t \in Topics : TRUE]
    /\ aborted = [c \in Controllers |-> FALSE]
    /\ task = [c \in Controllers |-> "none"]
    /\ cursor = [c \in Controllers |-> 0]
    /\ batch = [c \in Controllers |-> <<>>]
    /\ s2log = [t \in Topics |-> <<>>]
    /\ sent = [c \in Controllers |-> <<>>]
    /\ live = [t \in Topics |-> {}]
    /\ peak = [t \in Topics |-> 0]
    /\ nreadfail = 0

\* awarenessClientId?: number - the id of an entry that records none.
Undefined == -1
\* An entry of the connections hash, and the absence of one.
Entry(awarenessClientId) == [present |-> TRUE, awarenessClientId |-> awarenessClientId]
NoEntry == [present |-> FALSE, awarenessClientId |-> Undefined]

NoRequest == [conn |-> "", event |-> "none", msg |-> NoMessage]

\* No connection is open; the deployment is the one whose store is modelled.
SessionInit ==
    /\ deployment \in Deployments
    /\ conn = [p \in Procs |-> "new"]
    /\ connections = [r \in Rooms |-> [p \in Procs |-> NoEntry]]
    /\ request = NoRequest
    /\ response = <<>>
    /\ nreqs = 0
    /\ pos = [p \in Procs |-> "idle"]
    /\ arrived = [p \in Procs |-> <<>>]
    /\ unread = [p \in Procs |-> <<>>]
    /\ handled = [p \in Procs |-> <<>>]

\* ------------------------------------------------------------ chat endpoint state
\* A string is the sequence of its UTF-16 code units, one per element.
\* An event without content (content is undefined), and a key without value.
NoContent == <<"undefined">>
NoState == [present |-> FALSE, username |-> <<>>, room |-> <<>>]
\* No store call of the step failed.
NoError == "none"

\* Connection-Id headers of the requests.
ConnectionIds == {"k1", "k2"}

\* No request is being handled, nothing is tracked, nothing was encoded.
ChatIdle ==
    /\ connectionId = ""
    /\ reqText = <<>>
    /\ offset = 0
    /\ wsEvents = <<>>
    /\ evIdx = 1
    /\ responseEvents = <<>>
    /\ connState = [k \in ConnectionIds |-> NoState]
    /\ storeError = NoError
    /\ appended = <<>>
    /\ nsock = 0
    /\ nenc = 0
ChatInit == ChatIdle /\ at = "idle" /\ plain = <<>>

\* The awareness TTL (3600 s) in units of model time: a hash lapses
\* AwarenessTTL ticks after its last EXPIRE.
AwarenessTTL == 2
\* A key without expiry (TTL -1 in Redis), and a hash field that is not there.
NoTTL == -1
Absent == "absent"
\* Times at and beyond Long are not told apart.
Long == AwarenessTTL + 1
NoCall == [room |-> "", clientId |-> -1, state |-> "", failing |-> ""]
\* No awareness hash exists.
AwarenessInit ==
    /\ awareness = [r \in Rooms |-> [c \in ClientIds |-> Absent]]
    /\ deadline = [r \in Rooms |-> NoTTL]
    /\ since = [r \in Rooms |-> [c \in ClientIds |-> Long]]
    /\ quiet = [r \in Rooms |-> Long]
    /\ expireFailed = [r \in Rooms |-> FALSE]
    /\ called = NoCall

Init ==
    /\ RelayInit /\ BridgeInit /\ SessionInit /\ ChatInit /\ AwarenessInit
    /\ deployment = [handler |-> impl, persistence |-> TRUE]

\* ------------------------------------------------------------ helpers
Finish(p) == pc' = [pc EXCEPT ![p] = "respond"]

\* Some other invocation is compacting room r and has read the list it will clear.
CompactionHoldsRead(p, r) ==
    \E q \in Procs \ {p} :
        room[q] = r /\ pc[q] \in {"compact_set", "compact_del", "compactDoc_exec"}

\* RPUSH of p's update to the tail of the room's list.
Rpush(p) ==
    LET r == room[p]
        id == Len(rawLog[r]) + 1
    IN /\ updates' = [updates EXCEPT ![r] = Append(@, [id |-> id, blob |-> msg[p].payload])]
       /\ rawLog' = [rawLog EXCEPT ![r] = Append(@, msg[p].payload)]
       /\ duringCompaction' =
            [duringCompaction EXCEPT ![r] =
                IF CompactionHoldsRead(p, r) THEN @ \cup {id} ELSE @]

\* ------------------------------------------------ the request handler
\* wsContext.recvRaw() yields a message; the handler classifies it.
Receive(p) ==
    /\ pc[p] = "idle"
    /\ \E r \in Rooms, m \in InMessages :
        /\ room' = [room EXCEPT ![p] = r]
        /\ msg' = [msg EXCEPT ![p] = m]
        /\ began' = [began EXCEPT ![p] =
                       IF IsStep1(m)
                       THEN [appended |-> Len(rawLog[r]), compactions |-> ncompact[r]]
                       ELSE NoLoad]
        /\ pc' = [pc EXCEPT ![p] =
                    IF impl = "doc" THEN "loadDoc_get"
                    ELSE IF IsStep1(m) THEN "getState_get"
                    ELSE "storeUpdate_rpush"]
    /\ nmsgs' = nmsgs + 1
    /\ UNCHANGED <<bridgeVars, sessionVars, chatVars, awarenessVars, impl, storeVars, published, rdSnap, rdUpd, res, out, persist, npub,
                   nfail, histVars>>

\* A message arrives, within the bound on messages of a concurrent run.
Recv(p) == nmsgs < MaxMessages /\ Receive(p)

\* A message arrives, within the bound on messages of a serial run.
RecvSerial(p) == nmsgs < MaxSerialMessages /\ Receive(p)

\* getOutgoingEvents / encodeWebSocketEvents / return new Response(...)
Respond(p) ==
    /\ pc[p] = "respond"
    /\ pc' = [pc EXCEPT ![p] = "idle"]
    /\ msg' = [msg EXCEPT ![p] = NoMessage]
    /\ rdSnap' = [rdSnap EXCEPT ![p] = NoSnapshot]
    /\ rdUpd' = [rdUpd EXCEPT ![p] = <<>>]
    /\ res' = [res EXCEPT ![p] = Null]
    /\ out' = [out EXCEPT ![p] = <<>>]
    /\ persist' = [persist EXCEPT ![p] = "none"]
    /\ npub' = [npub EXCEPT ![p] = 0]
    /\ began' = [began EXCEPT ![p] = NoLoad]
    /\ UNCHANGED <<bridgeVars, sessionVars, chatVars, awarenessVars, impl, storeVars, published, room, nmsgs, nfail, histVars>>

\* ---------------------------------------- createRedisPersistence ("peer")
\* getState: redis.getBuffer(snapshotKey)
getState_get(p) ==
    /\ pc[p] = "getState_get"
    /\ rdSnap' = [rdSnap EXCEPT ![p] = snapshot[room[p]]]
    /\ pc' = [pc EXCEPT ![p] = "getState_lrange"]
    /\ UNCHANGED <<bridgeVars, sessionVars, chatVars, awarenessVars, began, impl, storeVars, published, room, msg, rdUpd, res, out, persist, npub,
                   nmsgs, nfail, histVars>>

\* getState: redis.lrangeBuffer(updatesKey, 0, -1), merge, return; the handler
\* answers the STEP1 with a STEP2 when the state is non-null.
getState_lrange(p) ==
    /\ pc[p] = "getState_lrange"
    /\ LET state == GetStateReturn(MergedDoc(rdSnap[p], updates[room[p]]))
       IN /\ rdUpd' = [rdUpd EXCEPT ![p] = updates[room[p]]]
          /\ res' = [res EXCEPT ![p] = state]
          /\ out' = [out EXCEPT ![p] =
                        IF state # Null THEN Append(@, encodeSyncStep2(state.state)) ELSE @]
    /\ Finish(p)
    /\ UNCHANGED <<bridgeVars, sessionVars, chatVars, awarenessVars, began, impl, storeVars, published, room, msg, rdSnap, persist, npub,
                   nmsgs, nfail, histVars>>

\* storeUpdate: redis.rpush(updatesKey, update)
storeUpdate_rpush(p) ==
    /\ pc[p] = "storeUpdate_rpush"
    /\ Rpush(p)
    /\ persist' = [persist EXCEPT ![p] = "ok"]
    /\ pc' = [pc EXCEPT ![p] = "storeUpdate_llen"]
    /\ UNCHANGED <<bridgeVars, sessionVars, chatVars, awarenessVars, began, impl, snapshot, published, room, msg, rdSnap, rdUpd, res, out,
                   npub, nmsgs, nfail, acked, ncompact>>

\* storeUpdate: the rpush rejects; the handler's catch logs it and goes on to publish.
storeUpdate_rpush_error(p) ==
    /\ pc[p] = "storeUpdate_rpush"
    /\ nfail < MaxFailures
    /\ nfail' = nfail + 1
    /\ persist' = [persist EXCEPT ![p] = "error"]
    /\ pc' = [pc EXCEPT ![p] = "publishToChannel"]
    /\ UNCHANGED <<bridgeVars, sessionVars, chatVars, awarenessVars, began, impl, storeVars, published, room, msg, rdSnap, rdUpd, res, out, npub,
                   nmsgs, histVars>>

\* storeUpdate: count = redis.llen(updatesKey); compact when count >= threshold
CompactDue(count) == compactionThreshold > 0 /\ count >= compactionThreshold

storeUpdate_llen(p) ==
    /\ pc[p] = "storeUpdate_llen"
    /\ pc' = [pc EXCEPT ![p] =
                IF CompactDue(Len(updates[room[p]])) THEN "compact_get"
                ELSE "publishToChannel"]
    /\ UNCHANGED <<bridgeVars, sessionVars, chatVars, awarenessVars, began, impl, storeVars, published, room, msg, rdSnap, rdUpd, res, out, persist,
                   npub, nmsgs, nfail, histVars>>

\* compact: redis.getBuffer(snapshotKey)
compact_get(p) ==
    /\ pc[p] = "compact_get"
    /\ rdSnap' = [rdSnap EXCEPT ![p] = snapshot[room[p]]]
    /\ pc' = [pc EXCEPT ![p] = "compact_lrange"]
    /\ UNCHANGED <<bridgeVars, sessionVars, chatVars, awarenessVars, began, impl, storeVars, published, room, msg, rdUpd, res, out, persist, npub,
                   nmsgs, nfail, histVars>>

\* compact: redis.lrangeBuffer(updatesKey, 0, -1)
compact_lrange(p) ==
    /\ pc[p] = "compact_lrange"
    /\ rdUpd' = [rdUpd EXCEPT ![p] = updates[room[p]]]
    /\ pc' = [pc EXCEPT ![p] = "compact_set"]
    /\ UNCHANGED <<bridgeVars, sessionVars, chatVars, awarenessVars, began, impl, storeVars, published, room, msg, rdSnap, res, out, persist, npub,
                   nmsgs, nfail, histVars>>

\* compact: first command of the pipeline, SET snapshotKey newSnapshot.
\* A pipeline is not a transaction: other clients' commands may run between
\* its commands.
compact_set(p) ==
    /\ pc[p] = "compact_set"
    /\ snapshot' = [snapshot EXCEPT ![room[p]] = NewSnapshot(rdSnap[p], rdUpd[p])]
    /\ pc' = [pc EXCEPT ![p] = "compact_del"]
    /\ UNCHANGED <<bridgeVars, sessionVars, chatVars, awarenessVars, began, impl, updates, published, room, msg, rdSnap, rdUpd, res, out, persist,
                   npub, nmsgs, nfail, histVars>>

\* compact: second command of the pipeline, DEL updatesKey.
compact_del(p) ==
    /\ pc[p] = "compact_del"
    /\ updates' = [updates EXCEPT ![room[p]] = <<>>]
    /\ ncompact' = [ncompact EXCEPT ![room[p]] = @ + 1]
    /\ pc' = [pc EXCEPT ![p] = "publishToChannel"]
    /\ UNCHANGED <<bridgeVars, sessionVars, chatVars, awarenessVars, began, impl, snapshot, published, room, msg, rdSnap, rdUpd, res, out, persist,
                   npub, nmsgs, nfail, rawLog, acked, duringCompaction>>

\* Mutant: the relay re-encodes the update as a STEP2 instead of relaying the bytes.
BroadcastBytes_Reencoded(m) == encodeSyncStep2(m.payload)

\* The bytes the relay hands to the proxy's publish API for an inbound message.
BroadcastBytes(m) == m

\* publishToChannel(publisher, channel, message)
publishToChannel(p) ==
    /\ pc[p] = "publishToChannel"
    /\ published' = Append(published, [channel |-> room[p], bytes |-> BroadcastBytes(msg[p])])
    /\ npub' = [npub EXCEPT ![p] = @ + 1]
    /\ acked' = [acked EXCEPT ![room[p]] =
                    IF persist[p] = "ok" THEN @ \cup msg[p].payload ELSE @]
    /\ Finish(p)
    /\ UNCHANGED <<bridgeVars, sessionVars, chatVars, awarenessVars, began, impl, storeVars, room, msg, rdSnap, rdUpd, res, out, persist,
                   nmsgs, nfail, rawLog, duringCompaction, ncompact>>

\* ------------------------------------------------- yjs-redis helpers ("doc")
\* loadDoc: r.getBuffer(docKey(room))
loadDoc_get(p) ==
    /\ pc[p] = "loadDoc_get"
    /\ rdSnap' = [rdSnap EXCEPT ![p] = snapshot[room[p]]]
    /\ pc' = [pc EXCEPT ![p] = "loadDoc_lrange"]
    /\ UNCHANGED <<bridgeVars, sessionVars, chatVars, awarenessVars, began, impl, storeVars, published, room, msg, rdUpd, res, out, persist, npub,
                   nmsgs, nfail, histVars>>

\* loadDoc: r.lrangeBuffer(updatesKey(room), 0, -1), then processMessage up to
\* its first store call: a STEP1 is answered with the diff against the state
\* vector; a STEP2/UPDATE is applied to the local doc and goes on to saveUpdate.
loadDoc_lrange(p) ==
    /\ pc[p] = "loadDoc_lrange"
    /\ LET d == MergedDoc(rdSnap[p], updates[room[p]])
       IN /\ rdUpd' = [rdUpd EXCEPT ![p] = updates[room[p]]]
          /\ res' = [res EXCEPT ![p] = State(d)]
          /\ IF IsStep1(msg[p])
             THEN /\ out' = [out EXCEPT ![p] =
                              Append(@, encodeSyncStep2(DiffAgainst(d, msg[p].payload)))]
                  /\ Finish(p)
             ELSE /\ out' = out
                  /\ pc' = [pc EXCEPT ![p] = "saveUpdate_rpush"]
    /\ UNCHANGED <<bridgeVars, sessionVars, chatVars, awarenessVars, began, impl, storeVars, published, room, msg, rdSnap, persist, npub,
                   nmsgs, nfail, histVars>>

\* saveUpdate: r.rpush(updatesKey(room), update)
saveUpdate_rpush(p) ==
    /\ pc[p] = "saveUpdate_rpush"
    /\ Rpush(p)
    /\ persist' = [persist EXCEPT ![p] = "ok"]
    /\ pc' = [pc EXCEPT ![p] = "saveUpdate_llen"]
    /\ UNCHANGED <<bridgeVars, sessionVars, chatVars, awarenessVars, began, impl, snapshot, published, room, msg, rdSnap, rdUpd, res, out,
                   npub, nmsgs, nfail, acked, ncompact>>

\* saveUpdate: the rpush rejects; processMessage throws and POST's catch drops
\* the message.
saveUpdate_rpush_error(p) ==
    /\ pc[p] = "saveUpdate_rpush"
    /\ nfail < MaxFailures
    /\ nfail' = nfail + 1
    /\ persist' = [persist EXCEPT ![p] = "error"]
    /\ Finish(p)
    /\ UNCHANGED <<bridgeVars, sessionVars, chatVars, awarenessVars, began, impl, storeVars, published, room, msg, rdSnap, rdUpd, res, out, npub,
                   nmsgs, histVars>>

\* saveUpdate: len = r.llen(updatesKey(room)); if (len > 100) compactDoc
CompactDocDue(len) == len > compactionThreshold

saveUpdate_llen(p) ==
    /\ pc[p] = "saveUpdate_llen"
    /\ pc' = [pc EXCEPT ![p] =
                IF CompactDocDue(Len(updates[room[p]])) THEN "compactDoc_get"
                ELSE "publishToRoom"]
    /\ UNCHANGED <<bridgeVars, sessionVars, chatVars, awarenessVars, began, impl, storeVars, published, room, msg, rdSnap, rdUpd, res, out, persist,
                   npub, nmsgs, nfail, histVars>>

\* compactDoc -> loadDoc: r.getBuffer(docKey(room))
compactDoc_get(p) ==
    /\ pc[p] = "compactDoc_get"
    /\ rdSnap' = [rdSnap EXCEPT ![p] = snapshot[room[p]]]
    /\ pc' = [pc EXCEPT ![p] = "compactDoc_lrange"]
    /\ UNCHANGED <<bridgeVars, sessionVars, chatVars, awarenessVars, began, impl, storeVars, published, room, msg, rdUpd, res, out, persist, npub,
                   nmsgs, nfail, histVars>>

\* compactDoc -> loadDoc: r.lrangeBuffer(updatesKey(room), 0, -1)
compactDoc_lrange(p) ==
    /\ pc[p] = "compactDoc_lrange"
    /\ rdUpd' = [rdUpd EXCEPT ![p] = updates[room[p]]]
    /\ pc' = [pc EXCEPT ![p] = "compactDoc_exec"]
    /\ UNCHANGED <<bridgeVars, sessionVars, chatVars, awarenessVars, began, impl, storeVars, published, room, msg, rdSnap, res, out, persist, npub,
                   nmsgs, nfail, histVars>>

\* compactDoc: MULTI; SET docKey state; DEL updatesKey; EXEC - one atomic step.
compactDoc_exec(p) ==
    /\ pc[p] = "compactDoc_exec"
    /\ snapshot' = [snapshot EXCEPT ![room[p]] = NewSnapshot(rdSnap[p], rdUpd[p])]
    /\ updates' = [updates EXCEPT ![room[p]] = <<>>]
    /\ ncompact' = [ncompact EXCEPT ![room[p]] = @ + 1]
    /\ pc' = [pc EXCEPT ![p] = "publishToRoom"]
    /\ UNCHANGED <<bridgeVars, sessionVars, chatVars, awarenessVars, began, impl, published, room, msg, rdSnap, rdUpd, res, out, persist,
                   npub, nmsgs, nfail, rawLog, acked, duringCompaction>>

\* processMessage returns { broadcast: message }; POST calls publishToRoom.
publishToRoom(p) ==
    /\ pc[p] = "publishToRoom"
    /\ published' = Append(published, [channel |-> room[p], bytes |-> BroadcastBytes(msg[p])])
    /\ npub' = [npub EXCEPT ![p] = @ + 1]
    /\ acked' = [acked EXCEPT ![room[p]] = @ \cup msg[p].payload]
    /\ Finish(p)
    /\ UNCHANGED <<bridgeVars, sessionVars, chatVars, awarenessVars, began, impl, storeVars, room, msg, rdSnap, rdUpd, res, out, persist,
                   nmsgs, nfail, rawLog, duringCompaction, ncompact>>

\* ------------------------------------------------- Subscription Bridge
\* activeSubscriptions.has(topic)
AlreadySubscribed(t) == activeSubscriptions[t] # 0

\* Mutant: the upstream subscription is cancelled while a subscriber remains.
NoSubscribersRemain_OffByOne(newCount) == newCount <= 1

\* Mutant: the upstream subscription is never cancelled.
NoSubscribersRemain_Never(newCount) == FALSE

\* if (newCount === 0): only unsubscribe from S2 when no subscribers remain
NoSubscribersRemain(newCount) == newCount = 0

\* Mutant: the record body is forwarded without the marker byte.
PushpinMessage_NoMarker(message) == [marker |-> "", body |-> message]

\* "J" + message
PushpinMessage(message) == [marker |-> "J", body |-> message]

RECURSIVE DropEmpty(_)
\* The records of a batch from the first one with a non-empty body on:
\* if (message) skips a record whose body is empty.
DropEmpty(recs) ==
    IF recs = <<>> THEN <<>>
    ELSE IF Head(recs).body = "" THEN DropEmpty(Tail(recs))
    ELSE recs

\* Stats event "sub" without unavailable: subscribeToS2Stream(topic) up to its
\* first await - count the subscriber and, unless a subscription is already
\* registered, create the AbortController, register it and start the read.
subscribeToS2Stream(t) ==
    /\ subscriberCounts[t] < MaxSubscribers
    /\ AlreadySubscribed(t) \/ nctrl < Cardinality(Controllers)
    /\ subscriberCounts' = [subscriberCounts EXCEPT ![t] = @ + 1]
    /\ peak' = [peak EXCEPT ![t] = IF subscriberCounts[t] + 1 > @
                                  THEN subscriberCounts[t] + 1 ELSE @]
    /\ IF AlreadySubscribed(t)
       THEN UNCHANGED <<activeSubscriptions, nctrl, topicOf, task>>
       ELSE LET c == nctrl + 1
            IN /\ nctrl' = c
               /\ activeSubscriptions' = [activeSubscriptions EXCEPT ![t] = c]
               /\ topicOf' = [topicOf EXCEPT ![c] = t]
               /\ task' = [task EXCEPT ![c] = "read"]
    /\ UNCHANGED <<relayVars, sessionVars, chatVars, awarenessVars, aborted, cursor, batch, s2log, sent, live, nreadfail>>

\* Mutant: an unsubscribe takes two subscribers off the count.
NewCount_TakesTwo(currentCount) == currentCount - 2

\* const newCount = currentCount - 1
NewCount(currentCount) == currentCount - 1

\* Stats event "sub" with unavailable: unsubscribeFromS2Stream(topic).
unsubscribeFromS2Stream(t) ==
    /\ LET currentCount == subscriberCounts[t]
           newCount == NewCount(currentCount)
           controller == activeSubscriptions[t]
       IN IF currentCount <= 0
          THEN UNCHANGED <<subscriberCounts, activeSubscriptions, aborted>>
          ELSE IF NoSubscribersRemain(newCount) /\ controller # 0
          THEN /\ aborted' = [aborted EXCEPT ![controller] = TRUE]
               /\ activeSubscriptions' = [activeSubscriptions EXCEPT ![t] = 0]
               /\ subscriberCounts' = [subscriberCounts EXCEPT ![t] = 0]
          ELSE /\ subscriberCounts' = [subscriberCounts EXCEPT ![t] = newCount]
               /\ UNCHANGED <<activeSubscriptions, aborted>>
    /\ UNCHANGED <<relayVars, sessionVars, chatVars, awarenessVars, nctrl, topicOf, task, cursor, batch, s2log, sent, live, peak,
                   nreadfail>>

\* A publisher appends a record to the topic's stream (POST /publish/:topic).
S2Append(t) ==
    /\ Len(s2log[t]) < MaxRecords
    /\ \E body \in Bodies : s2log' = [s2log EXCEPT ![t] = Append(@, body)]
    /\ live' = [live EXCEPT ![t] =
                  IF subscriberCounts[t] > 0 /\ task[activeSubscriptions[t]] # "read"
                  THEN @ \cup {Len(s2log[t]) + 1} ELSE @]
    /\ UNCHANGED <<relayVars, sessionVars, chatVars, awarenessVars, subscriberCounts, activeSubscriptions, nctrl, topicOf, aborted,
                   task, cursor, batch, sent, peak, nreadfail>>

\* await s2.records.read(...) resolves: the record stream is open.  The read
\* names no start position; the service starts it at the head or at the tail.
ReadOpens(c) ==
    /\ task[c] = "read"
    /\ ~aborted[c]
    /\ \E start \in {0, Len(s2log[topicOf[c]])} : cursor' = [cursor EXCEPT ![c] = start]
    /\ task' = [task EXCEPT ![c] = "stream"]
    /\ UNCHANGED <<relayVars, sessionVars, chatVars, awarenessVars, subscriberCounts, activeSubscriptions, nctrl, topicOf, aborted,
                   batch, s2log, sent, live, peak, nreadfail>>

\* The messages handed to publishSocket.send for the next record to forward.
SendNext(c, recs) ==
    LET rest == DropEmpty(recs)
    IN IF rest = <<>>
       THEN /\ task' = [task EXCEPT ![c] = "stream"]
            /\ batch' = [batch EXCEPT ![c] = <<>>]
            /\ sent' = sent
       ELSE /\ task' = [task EXCEPT ![c] = "send"]
            /\ batch' = [batch EXCEPT ![c] = Tail(rest)]
            /\ sent' = [sent EXCEPT ![c] =
                          Append(@, [idx |-> Head(rest).idx,
                                     bytes |-> PushpinMessage(Head(rest).body)])]

\* for await: a "batch" event arrives; its records are forwarded up to the
\* first await publishSocket.send.
NextBatch(c) ==
    /\ task[c] = "stream"
    /\ ~aborted[c]
    /\ \E last \in (cursor[c] + 1)..Len(s2log[topicOf[c]]) :
        /\ cursor' = [cursor EXCEPT ![c] = last]
        /\ SendNext(c, [i \in 1..(last - cursor[c]) |->
                          [idx |-> cursor[c] + i, body |-> s2log[topicOf[c]][cursor[c] + i]]])
    /\ UNCHANGED <<relayVars, sessionVars, chatVars, awarenessVars, subscriberCounts, activeSubscriptions, nctrl, topicOf, aborted,
                   s2log, live, peak, nreadfail>>

\* await publishSocket.send resolves: the rest of the batch is forwarded, then
\* the loop waits for the next event.
SendCompletes(c) ==
    /\ task[c] = "send"
    /\ SendNext(c, batch[c])
    /\ UNCHANGED <<relayVars, sessionVars, chatVars, awarenessVars, subscriberCounts, activeSubscriptions, nctrl, topicOf, aborted,
                   cursor, s2log, live, peak, nreadfail>>

\* The record stream ends without error: the for await loop is left and the
\* 100 ms delay starts.
StreamEnds(c) ==
    /\ task[c] = "stream"
    /\ ~aborted[c]
    /\ task' = [task EXCEPT ![c] = "poll_delay"]
    /\ UNCHANGED <<relayVars, sessionVars, chatVars, awarenessVars, subscriberCounts, activeSubscriptions, nctrl, topicOf, aborted,
                   cursor, batch, s2log, sent, live, peak, nreadfail>>

\* The read or the stream fails with an error that is not an AbortError: the
\* catch logs it and the 1000 ms delay starts.
ReadFails(c) ==
    /\ task[c] \in {"read", "stream"}
    /\ ~aborted[c]
    /\ nreadfail < MaxReadFailures
    /\ nreadfail' = nreadfail + 1
    /\ task' = [task EXCEPT ![c] = "backoff"]
    /\ UNCHANGED <<relayVars, sessionVars, chatVars, awarenessVars, subscriberCounts, activeSubscriptions, nctrl, topicOf, aborted,
                   cursor, batch, s2log, sent, live, peak>>

\* The signal was aborted: the pending read or stream rejects with AbortError
\* (or the next event finds signal.aborted) and the function returns.
AbortObserved(c) ==
    /\ task[c] \in {"read", "stream"}
    /\ aborted[c]
    /\ task' = [task EXCEPT ![c] = "exited"]
    /\ cursor' = [cursor EXCEPT ![c] = 0]
    /\ UNCHANGED <<relayVars, sessionVars, chatVars, awarenessVars, subscriberCounts, activeSubscriptions, nctrl, topicOf, aborted,
                   batch, s2log, sent, live, peak, nreadfail>>

\* Where subscribeToS2Stream's body goes when one of its two delays is over:
\* the try block ends and the function returns (there is no enclosing loop);
\* the read response goes out of scope with it.
AfterDelay(c) == "exited"

\* The 100 ms delay after the stream ended is over.
PollDelayElapses(c) ==
    /\ task[c] = "poll_delay"
    /\ task' = [task EXCEPT ![c] = AfterDelay(c)]
    /\ cursor' = [cursor EXCEPT ![c] = 0]
    /\ UNCHANGED <<relayVars, sessionVars, chatVars, awarenessVars, subscriberCounts, activeSubscriptions, nctrl, topicOf, aborted,
                   batch, s2log, sent, live, peak, nreadfail>>

\* The 1000 ms delay after a read error is over.
BackoffElapses(c) ==
    /\ task[c] = "backoff"
    /\ task' = [task EXCEPT ![c] = AfterDelay(c)]
    /\ cursor' = [cursor EXCEPT ![c] = 0]
    /\ UNCHANGED <<relayVars, sessionVars, chatVars, awarenessVars, subscriberCounts, activeSubscriptions, nctrl, topicOf, aborted,
                   batch, s2log, sent, live, peak, nreadfail>>

\* A step of the forwarding loop of controller c.
LoopStep(c) ==
    \/ ReadOpens(c)
    \/ NextBatch(c)
    \/ SendCompletes(c)
    \/ AbortObserved(c)
    \/ PollDelayElapses(c)
    \/ BackoffElapses(c)

NextBridge ==
    \/ \E t \in Topics : subscribeToS2Stream(t)
    \/ \E t \in Topics : unsubscribeFromS2Stream(t)
    \/ \E t \in Topics : S2Append(t)
    \/ \E c \in Controllers : LoopStep(c)
    \/ \E c \in Controllers : StreamEnds(c)
    \/ \E c \in Controllers : ReadFails(c)

\* The pubsub service is its own process; the relay deployment is left fixed.
InitBridge == Init /\ impl = "peer"

SpecBridge == InitBridge /\ [][NextBridge]_vars

\* The event loop runs every continuation that is ready: each step of a
\* forwarding loop that stays enabled is eventually taken.
SpecBridgeFair == SpecBridge /\ \A c \in Controllers : WF_vars(LoopStep(c))

\* ------------------------------------------------- connection sessions
\* One request per event: OPEN, one message, or CLOSE.  Each handler run is
\* one step; what interleaves at its awaits is the subject of Spec.

\* The events of a request body, as getWebSocketContextFromReq decodes them.
OpenEvent == [event |-> "open", msg |-> NoMessage]
MessageEvent(m) == [event |-> "message", msg |-> m]
CloseEvent == [event |-> "close", msg |-> NoMessage]

\* What may follow the OPEN of a body, or make up a body without OPEN: no
\* event, one event (any message, or CLOSE), or a batch of two events, each
\* an update, a single-change awareness message or CLOSE.
TailEvents == {MessageEvent(m) : m \in SessionMessages} \cup {CloseEvent}
BatchEvents ==
    {MessageEvent(SyncMessage(messageYjsUpdate, {o})) : o \in Ops}
    \cup {MessageEvent(AwarenessMessage(<<Change(1, 1, "s")>>)), CloseEvent}
Tails ==
    {<<>>} \cup {<<e>> : e \in TailEvents} \cup {<<e, f>> : e, f \in BatchEvents}

\* The message events of a sequence of events.
MessageEvents(events) == {i \in 1..Len(events) : events[i].event = "message"}

\* The bodies the proxy may deliver for connection p now: the first request
\* of a connection starts with OPEN, later ones carry messages or CLOSE, and
\* none follows its CLOSE.  Requests are taken one at a time: the events of
\* different connections interleave through bodies of a single event.
Deliverable(p) ==
    IF (\A q \in Procs : pos[q] = "idle") /\ conn[p] \in {"new", "active"}
    THEN {events \in {IF conn[p] = "new" THEN <<OpenEvent>> \o tail ELSE tail :
                        tail \in Tails} :
            /\ events # <<>>
            /\ nreqs + Cardinality(MessageEvents(events)) <= MaxSessionMessages}
    ELSE {}

\* The events the invocation of connection p has before it: the rest of the
\* body it is in, or the body of a request that arrives now.
Inbound(p) == IF pos[p] = "recv" THEN {unread[p]} ELSE Deliverable(p)

\* Mutant: the handler takes the last event of the body first.
recvRaw_Last(events) == events[Len(events)]

\* wsContext.recvRaw(): the next event of the body.
recvRaw(events) == Head(events)

\* break: a CLOSE ends the message loop.
AfterClose == "return"

\* The handler of connection p takes event e off the body; it goes on with
\* the loop when next is "recv" and events are left (canRecv()), and returns
\* its response otherwise.
Take(p, e, next) ==
    \E events \in Inbound(p) :
        LET more == next = "recv" /\ Tail(events) # <<>>
            all == IF pos[p] = "recv" THEN arrived[p] ELSE events
            done == IF pos[p] = "recv" THEN handled[p] ELSE <<>>
        IN /\ recvRaw(events) = e
           /\ pos' = [pos EXCEPT ![p] = IF more THEN "recv" ELSE "idle"]
           /\ unread' = [unread EXCEPT ![p] = IF more THEN Tail(events) ELSE <<>>]
           /\ arrived' = [arrived EXCEPT ![p] = IF more THEN all ELSE <<>>]
           /\ handled' = [handled EXCEPT ![p] = IF more THEN Append(done, e) ELSE <<>>]

\* The request of connection p fails while it handles event e: an uncaught
\* rejection ends the invocation, and the rest of the body is never read.
Fail(p, e) ==
    /\ \E events \in Inbound(p) : recvRaw(events) = e
    /\ pos' = [pos EXCEPT ![p] = "idle"]
    /\ unread' = [unread EXCEPT ![p] = <<>>]
    /\ arrived' = [arrived EXCEPT ![p] = <<>>]
    /\ handled' = [handled EXCEPT ![p] = <<>>]

\* Calls on wsContext, in the order the handler makes them.
CallAccept == [call |-> "accept", channel |-> "", bytes |-> NoMessage]
CallSubscribe(channel) == [call |-> "subscribe", channel |-> channel, bytes |-> NoMessage]
CallUnsubscribe(channel) == [call |-> "unsubscribe", channel |-> channel, bytes |-> NoMessage]
CallClose == [call |-> "close", channel |-> "", bytes |-> NoMessage]
SendBinary(m) == [call |-> "sendBinary", channel |-> "", bytes |-> m]

\* What the session handlers leave alone: the bridge, the invocations of the
\* interleaved relay model, and the deployment.
SessionFrame ==
    UNCHANGED <<bridgeVars, chatVars, awarenessVars, began, impl, pc, room, msg, rdSnap, rdUpd, res, out, persist, npub,
                nmsgs, acked, duringCompaction, deployment>>

StoreUntouched == UNCHANGED <<snapshot, updates, rawLog, ncompact>>

\* A store call of this request rejects (outcome other than "ok").
Outcome(outcome) ==
    IF outcome = "ok" THEN nfail' = nfail
    ELSE nfail < MaxFailures /\ nfail' = nfail + 1

\* The store after update is appended to room r's list, compacted at once when
\* the list length makes compaction due.
AppendUpdate(r, update, due) ==
    LET id == Len(rawLog[r]) + 1
        entries == Append(updates[r], [id |-> id, blob |-> update])
    IN /\ rawLog' = [rawLog EXCEPT ![r] = Append(@, update)]
       /\ IF due
          THEN /\ snapshot' = [snapshot EXCEPT ![r] = NewSnapshot(@, entries)]
               /\ updates' = [updates EXCEPT ![r] = <<>>]
               /\ ncompact' = [ncompact EXCEPT ![r] = @ + 1]
          ELSE /\ updates' = [updates EXCEPT ![r] = entries]
               /\ UNCHANGED <<snapshot, ncompact>>

\* publisher.publishFormats(channel, new WebSocketMessageFormat(message))
Publish(r, m) == published' = Append(published, [channel |-> r, bytes |-> BroadcastBytes(m)])

\* The byte length of an encoded sync message: outer tag, inner tag, length
\* prefix, and the update (an empty update encodes as two bytes).
ByteLength(m) == 3 + 2 + Cardinality(m.payload)

\* ---- makeYjsHandler of yjs-redis-persistence.ts ("peer")
\* if (wsContext.isOpening()): accept, subscribe, STEP1 with the empty state
\* vector, then the persisted state as STEP2 when getState returns one.
handler_open(p) ==
    /\ deployment.handler = "peer"
    /\ conn[p] = "new"
    /\ Take(p, OpenEvent, "recv")
    /\ \E outcome \in {"ok", "error"} :
        LET r == room[p]
            state == IF deployment.persistence /\ outcome = "ok"
                     THEN GetStateReturn(MergedDoc(snapshot[r], updates[r]))
                     ELSE Null
            head == <<CallAccept, CallSubscribe(r),
                      SendBinary(encodeSyncStep1(emptyStateVector))>>
        IN /\ outcome = "error" => deployment.persistence
           /\ Outcome(outcome)
           /\ response' = IF state # Null
                          THEN Append(head, SendBinary(encodeSyncStep2(state.state)))
                          ELSE head
    /\ request' = [conn |-> p, event |-> "open", msg |-> NoMessage]
    /\ conn' = [conn EXCEPT ![p] = "active"]
    /\ StoreUntouched
    /\ UNCHANGED <<published, connections, nreqs>>
    /\ SessionFrame

\* One pass of while (wsContext.canRecv()) for a message that is not CLOSE.
handler_message(p) ==
    /\ deployment.handler = "peer"
    /\ nreqs < MaxSessionMessages
    /\ \E m \in SessionMessages, outcome \in {"ok", "error"} :
        LET r == room[p]
            persists == deployment.persistence /\ IsUpdate(m) /\ m.payload # {}
            loads == deployment.persistence /\ IsStep1(m)
            state == IF loads /\ outcome = "ok"
                     THEN GetStateReturn(MergedDoc(snapshot[r], updates[r]))
                     ELSE Null
        IN /\ Take(p, MessageEvent(m), "recv")
           /\ outcome = "error" => loads \/ persists
           /\ Outcome(outcome)
           /\ request' = [conn |-> p, event |-> "message", msg |-> m]
           /\ response' = IF state # Null
                          THEN <<SendBinary(encodeSyncStep2(state.state))>>
                          ELSE <<>>
           /\ IF persists /\ outcome = "ok"
              THEN AppendUpdate(r, m.payload, CompactDue(Len(updates[r]) + 1))
              ELSE StoreUntouched
           /\ IF IsUpdate(m) \/ IsAwareness(m)
              THEN Publish(r, m)
              ELSE published' = published
    /\ nreqs' = nreqs + 1
    /\ UNCHANGED <<conn, connections>>
    /\ SessionFrame

\* rawMessage === null: wsContext.close()
handler_close(p) ==
    /\ deployment.handler = "peer"
    /\ Take(p, CloseEvent, AfterClose)
    /\ request' = [conn |-> p, event |-> "close", msg |-> NoMessage]
    /\ response' = <<CallClose>>
    /\ conn' = [conn EXCEPT ![p] = "closed"]
    /\ StoreUntouched
    /\ UNCHANGED <<published, connections, nreqs, nfail>>
    /\ SessionFrame

\* ---- makeYjsHandler of yjs-ws-handler.ts ("ws")
\* persistence.bindState(docName, doc) on a new Y.Doc: the document the
\* handler works with (empty without persistence or when bindState rejects).
BoundDoc(r, outcome) ==
    IF deployment.persistence /\ outcome = "ok"
    THEN MergedDoc(snapshot[r], updates[r])
    ELSE {}

\* if (wsContext.isOpening()): accept, subscribe, bindState, STEP1 with the
\* state vector of the doc, STEP2 with its state when it has clients.
wsHandler_open(p) ==
    /\ deployment.handler = "ws"
    /\ conn[p] = "new"
    /\ Take(p, OpenEvent, "recv")
    /\ \E outcome \in {"ok", "error"} :
        LET r == room[p]
            doc == BoundDoc(r, outcome)
            head == <<CallAccept, CallSubscribe(r), SendBinary(encodeSyncStep1(doc))>>
        IN /\ outcome = "error" => deployment.persistence
           /\ Outcome(outcome)
           /\ response' = IF deployment.persistence /\ doc # {}
                          THEN Append(head, SendBinary(encodeSyncStep2(doc)))
                          ELSE head
    /\ request' = [conn |-> p, event |-> "open", msg |-> NoMessage]
    /\ conn' = [conn EXCEPT ![p] = "active"]
    /\ StoreUntouched
    /\ UNCHANGED <<published, connections, nreqs>>
    /\ SessionFrame

\* One pass of the message loop: a STEP1 is answered with writeSyncStep2 of
\* the bound doc when response.length > 1; a STEP2/UPDATE goes to writeState
\* and is published; an awareness message is published.
wsHandler_message(p) ==
    /\ deployment.handler = "ws"
    /\ nreqs < MaxSessionMessages
    /\ \E m \in SessionMessages, outcome \in {"ok", "error"} :
        LET r == room[p]
            persists == deployment.persistence /\ IsUpdate(m)
            loads == deployment.persistence /\ IsStep1(m)
            answer == encodeSyncStep2(DiffAgainst(BoundDoc(r, outcome), m.payload))
        IN /\ Take(p, MessageEvent(m), "recv")
           /\ outcome = "error" => loads \/ persists
           /\ Outcome(outcome)
           /\ request' = [conn |-> p, event |-> "message", msg |-> m]
           /\ response' = IF IsStep1(m) /\ ByteLength(answer) > 1
                          THEN <<SendBinary(answer)>>
                          ELSE <<>>
           /\ IF persists /\ outcome = "ok"
              THEN AppendUpdate(r, m.payload, FALSE)
              ELSE StoreUntouched
           /\ IF IsUpdate(m) \/ IsAwareness(m)
              THEN Publish(r, m)
              ELSE published' = published
    /\ nreqs' = nreqs + 1
    /\ UNCHANGED <<conn, connections>>
    /\ SessionFrame

\* rawMessage === null: wsContext.close()
wsHandler_close(p) ==
    /\ deployment.handler = "ws"
    /\ Take(p, CloseEvent, AfterClose)
    /\ request' = [conn |-> p, event |-> "close", msg |-> NoMessage]
    /\ response' = <<CallClose>>
    /\ conn' = [conn EXCEPT ![p] = "closed"]
    /\ StoreUntouched
    /\ UNCHANGED <<published, connections, nreqs, nfail>>
    /\ SessionFrame

\* ---- POST of the room route with the yjs-redis helpers ("doc")
\* Mutant: the id of the first change is taken whatever the number of changes.
AwarenessClientId_FirstChange(m) ==
    IF Len(m.changes) >= 1 THEN m.changes[1].clientID ELSE Undefined

\* if (len === 1) awarenessClientId = the id of the one change
AwarenessClientId(m) ==
    IF Len(m.changes) = 1 THEN m.changes[1].clientID ELSE Undefined

\* Mutant: the departure message carries the sentinel of an unattributed entry.
encodeAwarenessUserDisconnected_WrongClient(clientId, lastClock) ==
    AwarenessMessage(<<Change(Undefined, lastClock + 1, "null")>>)

\* Mutant: the departure carries the clock it was given.
encodeAwarenessUserDisconnected_GivenClock(clientId, lastClock) ==
    AwarenessMessage(<<Change(clientId, lastClock, "null")>>)

\* encodeAwarenessUserDisconnected(clientId, lastClock): one change, the
\* client id, clock lastClock + 1, state null.
encodeAwarenessUserDisconnected(clientId, lastClock) ==
    AwarenessMessage(<<Change(clientId, lastClock + 1, "null")>>)

\* Mutant: the departure is broadcast whatever the entry holds.
Truthy_Always(awarenessClientId) == TRUE

\* if (connData.awarenessClientId): JavaScript truthiness of a number or undefined.
Truthy(awarenessClientId) == awarenessClientId # Undefined /\ awarenessClientId # 0

\* if (wsContext.isOpening()): accept, subscribe, loadDoc, STEP1 with the
\* doc's state vector, STEP2 with the full state, registerConnection.  A
\* loadDoc that rejects is not caught: the request fails without a response.
POST_open(p) ==
    /\ deployment.handler = "doc"
    /\ conn[p] = "new"
    /\ \E outcome \in {"ok", "error"} :
        LET r == room[p]
            doc == MergedDoc(snapshot[r], updates[r])
        IN /\ Outcome(outcome)
           /\ IF outcome = "ok"
              THEN /\ Take(p, OpenEvent, "recv")
                   /\ response' = <<CallAccept, CallSubscribe(r),
                                    SendBinary(encodeSyncStep1(doc)),
                                    SendBinary(encodeSyncStep2(doc))>>
                   /\ connections' = [connections EXCEPT ![r][p] = Entry(Undefined)]
                   /\ conn' = [conn EXCEPT ![p] = "active"]
              ELSE /\ Fail(p, OpenEvent)
                   /\ response' = <<>>
                   /\ connections' = connections
                   /\ conn' = [conn EXCEPT ![p] = "failed"]
    /\ request' = [conn |-> p, event |-> "open", msg |-> NoMessage]
    /\ StoreUntouched
    /\ UNCHANGED <<published, nreqs>>
    /\ SessionFrame

\* One pass of the message loop: loadDoc, processMessage, response,
\* publishToRoom, registerConnection; an error of any of them is caught and
\* ends the pass.
POST_message(p) ==
    /\ deployment.handler = "doc"
    /\ nreqs < MaxSessionMessages
    /\ \E m \in SessionMessages,
          outcome \in {"ok", "load_error", "save_error", "register_error"} :
        LET r == room[p]
            doc == MergedDoc(snapshot[r], updates[r])
            awarenessClientId == AwarenessClientId(m)
            registers == IsAwareness(m) /\ awarenessClientId # Undefined
        IN /\ Take(p, MessageEvent(m), "recv")
           /\ outcome = "save_error" => IsUpdate(m)
           /\ outcome = "register_error" => registers
           /\ Outcome(outcome)
           /\ request' = [conn |-> p, event |-> "message", msg |-> m]
           /\ response' = IF IsStep1(m) /\ outcome = "ok"
                          THEN <<SendBinary(encodeSyncStep2(DiffAgainst(doc, m.payload)))>>
                          ELSE <<>>
           /\ IF IsUpdate(m) /\ outcome = "ok"
              THEN AppendUpdate(r, m.payload, CompactDocDue(Len(updates[r]) + 1))
              ELSE StoreUntouched
           /\ IF (IsUpdate(m) /\ outcome = "ok")
                 \/ (IsAwareness(m) /\ outcome \in {"ok", "register_error"})
              THEN Publish(r, m)
              ELSE published' = published
           /\ connections' = IF registers /\ outcome = "ok"
                             THEN [connections EXCEPT ![r][p] = Entry(awarenessClientId)]
                             ELSE connections
    /\ nreqs' = nreqs + 1
    /\ UNCHANGED conn
    /\ SessionFrame

\* rawMessage === null: unregisterConnection, the departure broadcast when
\* connData.awarenessClientId is truthy, unsubscribe, close.  An
\* unregisterConnection that rejects is not caught: the request fails without
\* a response.
POST_close(p) ==
    /\ deployment.handler = "doc"
    /\ \E outcome \in {"ok", "error"} :
        LET r == room[p]
            connData == connections[r][p]
        IN /\ Outcome(outcome)
           /\ IF outcome = "ok"
              THEN /\ Take(p, CloseEvent, AfterClose)
                   /\ connections' = [connections EXCEPT ![r][p] = NoEntry]
                   /\ IF Truthy(connData.awarenessClientId)
                      THEN Publish(r, encodeAwarenessUserDisconnected(
                                          connData.awarenessClientId, 0))
                      ELSE published' = published
                   /\ response' = <<CallUnsubscribe(r), CallClose>>
                   /\ conn' = [conn EXCEPT ![p] = "closed"]
              ELSE /\ Fail(p, CloseEvent)
                   /\ UNCHANGED <<connections, published>>
                   /\ response' = <<>>
                   /\ conn' = [conn EXCEPT ![p] = "failed"]
    /\ request' = [conn |-> p, event |-> "close", msg |-> NoMessage]
    /\ StoreUntouched
    /\ UNCHANGED nreqs
    /\ SessionFrame

NextSession ==
    \E p \in Procs :
        \/ handler_open(p)
        \/ handler_message(p)
        \/ handler_close(p)
        \/ wsHandler_open(p)
        \/ wsHandler_message(p)
        \/ wsHandler_close(p)
        \/ POST_open(p)
        \/ POST_message(p)
        \/ POST_close(p)

\* Any deployment; the store implementation goes with the handler.
InitSession ==
    /\ RelayInit /\ BridgeInit /\ SessionInit /\ ChatInit /\ AwarenessInit
    /\ impl = IF deployment.handler = "doc" THEN "doc" ELSE "peer"

SpecSession == InitSession /\ [][NextSession]_vars

\* ------------------------------------------------------------ strings
\* The Number NaN.  Offsets and lengths of the model are never below -1.
NaN == -2
\* a + b on Numbers.
Plus(a, b) == IF a = NaN \/ b = NaN THEN NaN ELSE a + b
\* a < b on Numbers: false when either is NaN.
LessThan(a, b) == a # NaN /\ b # NaN /\ a < b

CRLF == <<"\r", "\n">>
WhiteSpace == {" ", "\r", "\n"}
Digits == <<"0", "1", "2", "3", "4", "5", "6", "7", "8", "9",
            "A", "B", "C", "D", "E", "F">>
LowerDigits == <<"0", "1", "2", "3", "4", "5", "6", "7", "8", "9",
                 "a", "b", "c", "d", "e", "f">>
IsHexDigit(c) == \E i \in 1..16 : Digits[i] = c \/ LowerDigits[i] = c
HexValue(c) == (CHOOSE i \in 1..16 : Digits[i] = c \/ LowerDigits[i] = c) - 1

\* An index argument of substring: NaN and negatives count as 0, indexes
\* past the end as the length.
ClampIndex(n, len) == IF n = NaN \/ n < 0 THEN 0 ELSE IF n > len THEN len ELSE n
\* String.prototype.substring(start, end): the arguments are swapped when
\* start is the larger one.
substring(s, start, end) ==
    LET a == ClampIndex(start, Len(s))
        b == ClampIndex(end, Len(s))
    IN IF a <= b THEN SubSeq(s, a + 1, b) ELSE SubSeq(s, b + 1, a)
\* String.prototype.indexOf(searchString, position): -1 when not found.
indexOf(s, searchString, position) ==
    LET found == {i \in ClampIndex(position, Len(s))..(Len(s) - Len(searchString)) :
                     SubSeq(s, i + 1, i + Len(searchString)) = searchString}
    IN IF found = {} THEN -1 ELSE CHOOSE i \in found : \A j \in found : i <= j
RECURSIVE trimStart(_)
trimStart(s) == IF s # <<>> /\ Head(s) \in WhiteSpace THEN trimStart(Tail(s)) ELSE s
RECURSIVE trimEnd(_)
trimEnd(s) ==
    IF s # <<>> /\ s[Len(s)] \in WhiteSpace THEN trimEnd(SubSeq(s, 1, Len(s) - 1)) ELSE s
\* String.prototype.trim()
trim(s) == trimEnd(trimStart(s))
\* The longest prefix of s made of hexadecimal digits.
RECURSIVE HexPrefix(_)
HexPrefix(s) ==
    IF s # <<>> /\ IsHexDigit(Head(s)) THEN <<Head(s)>> \o HexPrefix(Tail(s)) ELSE <<>>
RECURSIVE HexNumber(_)
HexNumber(ds) ==
    IF ds = <<>> THEN 0 ELSE 16 * HexNumber(SubSeq(ds, 1, Len(ds) - 1)) + HexValue(ds[Len(ds)])
\* parseInt(s, 16): leading white space is skipped, the digits up to the first
\* character that is none are read, and NaN results when there is no digit.
\* (No string of the model holds a sign or the prefix 0x.)
parseInt16(s) ==
    LET ds == HexPrefix(trimStart(s))
    IN IF ds = <<>> THEN NaN ELSE HexNumber(ds)
\* n.toString(16).toUpperCase()
RECURSIVE toString16(_)
toString16(n) ==
    IF n < 16 THEN <<Digits[n + 1]>> ELSE toString16(n \div 16) \o <<Digits[(n % 16) + 1]>>
\* The bytes of a code unit in UTF-8.
Utf8Bytes(c) == IF c = "U+FFFD" THEN 3 ELSE IF c = "U+00E9" THEN 2 ELSE 1
RECURSIVE Utf8Length(_)
Utf8Length(s) == IF s = <<>> THEN 0 ELSE Utf8Bytes(Head(s)) + Utf8Length(Tail(s))

\* ------------------------------------------------------------ frame codec
OPEN == <<"O", "P", "E", "N">>
TEXT == <<"T", "E", "X", "T">>
CLOSE == <<"C", "L", "O", "S", "E">>
PING == <<"P", "I", "N", "G">>
PONG == <<"P", "O", "N", "G">>
Event(type, content) == [type |-> type, content |-> content]

\* encodeWebSocketEvent(type, content?)
encodeWebSocketEvent(type, content) ==
    IF content = NoContent \/ content = <<>>
    THEN type \o CRLF
    ELSE TEXT \o <<" ">> \o toString16(Len(content)) \o CRLF \o content \o CRLF

\* const contentLength = parseInt(contentLengthHex, 16)
contentLength(contentLengthHex) == parseInt16(contentLengthHex)

\* One pass of the while loop of parseWebSocketEvents on string s at offset
\* o: the event it pushes (if any) and the offset it leaves.
ParsePass(s, o) ==
    LET eventTypeEnd == indexOf(s, <<" ">>, o)
        lineEnd == indexOf(s, CRLF, o)
    IN IF eventTypeEnd = -1 \/ (lineEnd # -1 /\ lineEnd < eventTypeEnd)
       THEN LET eventType == trim(substring(s, o, lineEnd))
            IN [push |-> IF eventType # <<>> THEN <<Event(eventType, NoContent)>> ELSE <<>>,
                offset |-> lineEnd + 2]
       ELSE LET eventType == substring(s, o, eventTypeEnd)
                contentLengthEnd == indexOf(s, CRLF, eventTypeEnd + 1)
                len == contentLength(substring(s, eventTypeEnd + 1, contentLengthEnd))
                start == contentLengthEnd + 2
            IN [push |-> <<Event(eventType, substring(s, start, Plus(start, len)))>>,
                offset |-> Plus(Plus(start, len), 2)]

\* ------------------------------------------------------------ chat endpoint
MaxSocketRequests == 2
MaxParsed == 4
MaxPlain == 2

general == <<"g", "e", "n", "e", "r", "a", "l">>
Anonymous == <<"A", "n", "o", "n", "y", "m", "o", "u", "s">>
\* The JSON texts clients send: a join and a message that name neither room
\* nor user, an object without type, and a text that is no JSON.
JoinText == <<"{", "\"", "t", "y", "p", "e", "\"", ":", "\"", "j", "o", "i", "n", "\"", "}">>
MessageText == <<"{", "\"", "t", "y", "p", "e", "\"", ":", "\"", "m", "e", "s", "s", "a",
        "g", "e", "\"", "}">>
\* A join that names room "r" and user "u".
JoinRoomText == <<"{", "\"", "t", "y", "p", "e", "\"", ":", "\"", "j", "o", "i", "n", "\"", ",",
        "\"", "r", "o", "o", "m", "\"", ":", "\"", "r", "\"", ",",
        "\"", "u", "s", "e", "r", "n", "a", "m", "e", "\"", ":", "\"", "u", "\"", "}">>
EmptyObjectText == <<"{", "}">>
NoJsonText == <<"x">>
Missing == <<"undefined">>
\* JSON.parse(event.content) on these texts; valid is FALSE when it throws.
JSONparse(text) ==
    IF text = JoinText
    THEN [valid |-> TRUE, type |-> "join", room |-> Missing, username |-> Missing]
    ELSE IF text = JoinRoomText
    THEN [valid |-> TRUE, type |-> "join", room |-> <<"r">>, username |-> <<"u">>]
    ELSE IF text = MessageText
    THEN [valid |-> TRUE, type |-> "message", room |-> Missing, username |-> Missing]
    ELSE IF text = EmptyObjectText
    THEN [valid |-> TRUE, type |-> "undefined", room |-> Missing, username |-> Missing]
    ELSE [valid |-> FALSE, type |-> "undefined", room |-> Missing, username |-> Missing]
\* value || fallback
OrElse(value, fallback) == IF value = Missing \/ value = <<>> THEN fallback ELSE value

channelOf(roomName) == <<"r", "o", "o", "m", ":">> \o roomName
subscribeMsg(roomName) ==
    <<"{", "\"", "t", "y", "p", "e", "\"", ":", "\"", "s", "u", "b", "s", "c", "r", "i", "b",
        "e", "\"", ",", "\"", "c", "h", "a", "n", "n", "e", "l", "\"", ":",
        "\"">> \o channelOf(roomName) \o <<"\"", "}">>
unsubscribeMsg(roomName) ==
    <<"{", "\"", "t", "y", "p", "e", "\"", ":", "\"", "u", "n", "s", "u", "b", "s", "c", "r",
        "i", "b", "e", "\"", ",", "\"", "c", "h", "a", "n", "n", "e", "l", "\"", ":",
        "\"">> \o channelOf(roomName) \o <<"\"", "}">>
joinMessage(username) ==
    <<"{", "\"", "t", "y", "p", "e", "\"", ":", "\"", "s", "y", "s", "t", "e", "m", "\"",
        ",", "\"", "m", "e", "s", "s", "a", "g", "e", "\"", ":", "\"">> \o username \o <<" ",
        "j", "o", "i", "n", "e", "d", " ", "t", "h", "e", " ", "r", "o", "o", "m", "\"", "}">>
welcomeMsg(roomName) ==
    <<"{", "\"", "t", "y", "p", "e", "\"", ":", "\"", "s", "y", "s", "t", "e", "m", "\"",
        ",", "\"", "m", "e", "s", "s", "a", "g", "e", "\"", ":", "\"", "W", "e", "l", "c",
        "o", "m", "e", " ", "t", "o", " ", "#">> \o roomName \o <<"!", "\"", "}">>
leaveMessage(username) ==
    <<"{", "\"", "t", "y", "p", "e", "\"", ":", "\"", "s", "y", "s", "t", "e", "m", "\"",
        ",", "\"", "m", "e", "s", "s", "a", "g", "e", "\"", ":", "\"">> \o username \o <<" ",
        "h", "a", "s", " ", "l", "e", "f", "t", " ", "t", "h", "e", " ", "r", "o", "o", "m",
        "\"", "}">>
\* data.message is undefined for MessageText, and JSON.stringify leaves the key out.
chatMessage(username) ==
    <<"{", "\"", "t", "y", "p", "e", "\"", ":", "\"", "m", "e", "s", "s", "a", "g", "e",
        "\"", ",", "\"", "u", "s", "e", "r", "n", "a", "m", "e", "\"", ":",
        "\"">> \o username \o <<"\"", "}">>
\* Buffer.from([0x03, 0xE8]).toString(): 0x03, and the replacement character
\* for the byte 0xE8 that is no UTF-8.
statusCode == <<"U+0003", "U+FFFD">>
\* The CLOSE event as Pushpin sends it: two bytes of status code.
CloseFrame == CLOSE \o <<" ", "2">> \o CRLF \o statusCode \o CRLF
\* A TEXT event of the request body.
TextFrame(content) == TEXT \o <<" ">> \o toString16(Len(content)) \o CRLF \o content \o CRLF
\* A TEXT event whose length field is no hexadecimal number.
MalformedFrame == TEXT \o <<" ", "Z">> \o CRLF \o NoJsonText \o CRLF
\* PING without the line end.
TruncatedFrame == PING

Frames == {OPEN \o CRLF, PING \o CRLF, CloseFrame, TextFrame(JoinText),
           TextFrame(MessageText)}
\* Request bodies: empty, up to two events, a join that names its room (after
\* another join and before a CLOSE), a malformed event alone, first, last or
\* between two events, and a body cut before its line end.
RequestBodies ==
    {<<>>, TruncatedFrame} \cup Frames \cup {f \o g : f, g \in Frames}
    \cup {TextFrame(JoinText) \o TextFrame(JoinRoomText),
          TextFrame(JoinRoomText) \o CloseFrame}
    \cup {TextFrame(EmptyObjectText), TextFrame(NoJsonText), TEXT \o CRLF}
    \cup {MalformedFrame} \cup {MalformedFrame \o g : g \in Frames}
    \cup {f \o MalformedFrame : f \in Frames}
    \cup {f \o MalformedFrame \o g : f, g \in {OPEN \o CRLF, TextFrame(JoinText)}}

ChatFrame == UNCHANGED <<relayVars, bridgeVars, sessionVars, awarenessVars>>

\* Mutant: a request without body carries no event.
DefaultEvents_None == <<>>
\* [{ type: "OPEN" }]: the events of a request whose body is empty.
DefaultEvents == <<Event(OPEN, NoContent)>>

\* const body = await req.text();
\* const events = body ? parseWebSocketEvents(body) : [{ type: "OPEN" }];
GET_receive ==
    /\ at = "idle"
    /\ nsock < MaxSocketRequests
    /\ \E k \in ConnectionIds, text \in RequestBodies :
        /\ connectionId' = k
        /\ reqText' = text
        /\ wsEvents' = IF text = <<>> THEN DefaultEvents ELSE <<>>
        /\ at' = IF text = <<>> THEN "events" ELSE "parse"
    /\ offset' = 0
    /\ evIdx' = 1
    /\ responseEvents' = <<>>
    /\ nsock' = nsock + 1
    /\ storeError' = NoError
    /\ UNCHANGED <<connState, appended, plain, nenc>>
    /\ ChatFrame

\* One pass of while (offset < body.length) of parseWebSocketEvents; the
\* function returns when the condition fails.
parseWebSocketEvents ==
    /\ at = "parse"
    /\ Len(wsEvents) < MaxParsed
    /\ LET pass == ParsePass(reqText, offset)
       IN /\ wsEvents' = wsEvents \o pass.push
          /\ offset' = pass.offset
          /\ at' = IF LessThan(pass.offset, Len(reqText)) THEN "parse" ELSE "events"
    /\ UNCHANGED <<connectionId, reqText, evIdx, responseEvents, connState, storeError,
                   appended, nsock, plain, nenc>>
    /\ ChatFrame

\* The for loop of GET is at an event.
Handling == at = "events" /\ evIdx <= Len(wsEvents)
event == wsEvents[evIdx]
HasContent(content) == content # NoContent /\ content # <<>>
\* publishToChannel(channel, message) of socket.ts: one record appended to
\* the stream of the channel.
appendRecord(channel, message) ==
    appended' = Append(appended, [channel |-> channel, message |-> message])
\* The loop goes on to the next event.
NextEvent ==
    /\ evIdx' = evIdx + 1
    /\ UNCHANGED <<connectionId, reqText, at, offset, wsEvents, nsock, plain, nenc>>
    /\ ChatFrame
\* An awaited store call rejects outside any try block: GET rejects and no
\* Response is returned.
Reject ==
    /\ at' = "idle"
    /\ responseEvents' = <<>>
    /\ UNCHANGED <<connectionId, reqText, offset, wsEvents, evIdx, nsock, plain, nenc>>
    /\ ChatFrame

\* Mutant: the key written does not depend on the connection id.
setConnectionState_OneKey(state, k, username, roomName) ==
    [j \in DOMAIN state |-> [present |-> TRUE, username |-> username, room |-> roomName]]
\* setConnectionState: SETEX conn:<id> ttl JSON.stringify({ username, room })
setConnectionState(state, k, username, roomName) ==
    [state EXCEPT ![k] = [present |-> TRUE, username |-> username, room |-> roomName]]
\* getConnectionState: GET conn:<id>; null without value, else JSON.parse of
\* it, which gives back the two strings that were written.
getConnectionState(state, k) == state[k]
\* Mutant: DEL removes the entry of every connection.
deleteConnectionState_All(state, k) == [j \in DOMAIN state |-> NoState]
\* deleteConnectionState: DEL conn:<id>
deleteConnectionState(state, k) == [state EXCEPT ![k] = NoState]

\* The TTL of conn:<id> lapses (3600 s after the SETEX that wrote it): Redis
\* removes the key.
ExpireKey(k) ==
    /\ connState[k].present
    /\ connState' = deleteConnectionState(connState, k)
    /\ UNCHANGED <<connectionId, reqText, at, offset, wsEvents, evIdx, responseEvents,
                   storeError, appended, nsock, plain, nenc>>
    /\ ChatFrame
Expire == \E k \in ConnectionIds : ExpireKey(k)

\* event.type === "OPEN"
GET_open ==
    /\ Handling /\ event.type = OPEN
    /\ responseEvents' = responseEvents \o OPEN \o CRLF
    /\ storeError' = NoError
    /\ UNCHANGED <<connState, appended>>
    /\ NextEvent

\* event.type === "TEXT" && event.content.  The branch runs in a try block:
\* a setConnectionState that rejects ends the branch; publishToChannel
\* catches the error of its append itself.
GET_text ==
    /\ Handling /\ event.type = TEXT /\ HasContent(event.content)
    /\ LET data == JSONparse(event.content)
           roomName == OrElse(data.room, general)
           username == OrElse(data.username, Anonymous)
       IN IF data.valid /\ data.type = "join"
          THEN \E failing \in {NoError, "setConnectionState", "append"} :
                /\ storeError' = failing
                /\ IF failing = "setConnectionState"
                   THEN UNCHANGED <<connState, responseEvents, appended>>
                   ELSE /\ connState' = setConnectionState(connState, connectionId,
                                                           username, roomName)
                        /\ responseEvents' =
                              responseEvents
                              \o encodeWebSocketEvent(TEXT, <<"c", ":">> \o subscribeMsg(roomName))
                              \o encodeWebSocketEvent(TEXT, welcomeMsg(roomName))
                        /\ IF failing = "append"
                           THEN UNCHANGED appended
                           ELSE appendRecord(channelOf(roomName), joinMessage(username))
          ELSE IF data.valid /\ data.type = "message"
          THEN \E failing \in {NoError, "append"} :
                /\ storeError' = failing
                /\ IF failing = "append"
                   THEN UNCHANGED appended
                   ELSE appendRecord(channelOf(roomName), chatMessage(username))
                /\ UNCHANGED <<connState, responseEvents>>
          ELSE /\ storeError' = NoError
               /\ UNCHANGED <<connState, responseEvents, appended>>
    /\ NextEvent

\* event.type === "CLOSE".  getConnectionState and deleteConnectionState are
\* awaited outside any try block.
GET_close ==
    /\ Handling /\ event.type = CLOSE
    /\ LET connectionInfo == getConnectionState(connState, connectionId)
       IN \E failing \in {NoError, "getConnectionState", "append", "deleteConnectionState"} :
           /\ storeError' = failing
           /\ failing \in {"append", "deleteConnectionState"} => connectionInfo.present
           /\ IF failing = "getConnectionState"
              THEN UNCHANGED <<connState, appended>> /\ Reject
              ELSE IF connectionInfo.present
              THEN /\ IF failing = "append"
                      THEN UNCHANGED appended
                      ELSE appendRecord(channelOf(connectionInfo.room),
                                        leaveMessage(connectionInfo.username))
                   /\ IF failing = "deleteConnectionState"
                      THEN UNCHANGED connState /\ Reject
                      ELSE /\ connState' = deleteConnectionState(connState, connectionId)
                           /\ responseEvents' =
                                  responseEvents
                                  \o encodeWebSocketEvent(TEXT, <<"c", ":">>
                                         \o unsubscribeMsg(connectionInfo.room))
                                  \o CloseFrame
                           /\ NextEvent
              ELSE /\ responseEvents' = responseEvents \o CloseFrame
                   /\ UNCHANGED <<connState, appended>>
                   /\ NextEvent

\* event.type === "PING"
GET_ping ==
    /\ Handling /\ event.type = PING
    /\ responseEvents' = responseEvents \o PONG \o CRLF
    /\ storeError' = NoError
    /\ UNCHANGED <<connState, appended>>
    /\ NextEvent

\* No branch of the loop body takes the event.
GET_skip ==
    /\ Handling
    /\ event.type \notin {OPEN, CLOSE, PING}
    /\ ~(event.type = TEXT /\ HasContent(event.content))
    /\ storeError' = NoError
    /\ UNCHANGED <<responseEvents, connState, appended>>
    /\ NextEvent

\* return new Response(responseEvents, ...)
GET_return ==
    /\ at = "events" /\ evIdx > Len(wsEvents)
    /\ at' = "idle"
    /\ UNCHANGED <<connectionId, reqText, offset, wsEvents, evIdx, responseEvents, connState,
                   storeError, appended, nsock, plain, nenc>>
    /\ ChatFrame

NextSocket ==
    \/ GET_receive
    \/ parseWebSocketEvents
    \/ GET_open
    \/ GET_text
    \/ GET_close
    \/ GET_ping
    \/ GET_skip
    \/ GET_return
    \/ Expire

InitSocket == Init /\ impl = "peer"
SpecSocket == InitSocket /\ [][NextSocket]_vars

\* ---- the codec on its own: events are encoded one after the other into one
\* string, which is then decoded.
PlainContents ==
    {NoContent, <<"x">>, <<"a", " ", "b">>, CRLF, MessageText, <<"U+00E9">>}
PlainEvents == {Event(type, content) : type \in {OPEN, TEXT, CLOSE, PING},
                                       content \in PlainContents}
RECURSIVE SeqsUpTo(_, _)
SeqsUpTo(S, n) ==
    IF n = 0 THEN {<<>>}
    ELSE LET shorter == SeqsUpTo(S, n - 1)
         IN shorter \cup {Append(s, e) : s \in shorter, e \in S}

Encode ==
    /\ at = "encode" /\ nenc < Len(plain)
    /\ reqText' = reqText \o encodeWebSocketEvent(plain[nenc + 1].type, plain[nenc + 1].content)
    /\ nenc' = nenc + 1
    /\ UNCHANGED <<connectionId, at, offset, wsEvents, evIdx, responseEvents, connState,
                   storeError, appended, nsock, plain>>
    /\ ChatFrame

Decode ==
    /\ at = "encode" /\ nenc = Len(plain)
    /\ at' = IF LessThan(0, Len(reqText)) THEN "parse" ELSE "events"
    /\ UNCHANGED <<connectionId, reqText, offset, wsEvents, evIdx, responseEvents, connState,
                   storeError, appended, nsock, plain, nenc>>
    /\ ChatFrame

NextCodec == Encode \/ Decode \/ parseWebSocketEvents

InitCodec ==
    /\ RelayInit /\ BridgeInit /\ SessionInit
    /\ impl = "peer"
    /\ deployment = [handler |-> impl, persistence |-> TRUE]
    /\ ChatIdle /\ at = "encode"
    /\ AwarenessInit
    /\ plain \in SeqsUpTo(PlainEvents, MaxPlain)
SpecCodec == InitCodec /\ [][NextCodec]_vars

\* ------------------------------------------------------- specifications
Work(p) ==
    \/ Respond(p)
    \/ getState_get(p)
    \/ getState_lrange(p)
    \/ storeUpdate_rpush(p)
    \/ storeUpdate_rpush_error(p)
    \/ storeUpdate_llen(p)
    \/ compact_get(p)
    \/ compact_lrange(p)
    \/ compact_set(p)
    \/ compact_del(p)
    \/ publishToChannel(p)
    \/ loadDoc_get(p)
    \/ loadDoc_lrange(p)
    \/ saveUpdate_rpush(p)
    \/ saveUpdate_rpush_error(p)
    \/ saveUpdate_llen(p)
    \/ compactDoc_get(p)
    \/ compactDoc_lrange(p)
    \/ compactDoc_exec(p)
    \/ publishToRoom(p)

\* Handler invocations of different connections interleave at every await.
Next == \E p \in Procs : Recv(p) \/ Work(p)

Spec == Init /\ [][Next]_vars

\* One invocation at a time: nothing runs concurrently with an operation.
Alone(p) == \A q \in Procs \ {p} : pc[q] = "idle"

NextSerial == \E p \in Procs : Alone(p) /\ (RecvSerial(p) \/ Work(p))

SpecSerial == Init /\ [][NextSerial]_vars

\* ================================================================ claims
\* What a load() of room r returns when it runs alone on the current store.
StoredDoc(r) == MergedDoc(snapshot[r], updates[r])

\* What load() returns when the raw sequence of appended updates is merged
\* without any compaction.
RawLoad(r) ==
    IF impl = "peer" THEN GetStateReturn(MergeBlobs(rawLog[r]))
    ELSE State(MergeBlobs(rawLog[r]))

\* An invocation has finished a load() (a STEP1 request) and holds its result.
Loaded(p) == pc[p] = "respond" /\ IsStep1(msg[p])

\* C1: with no operation running concurrently (SpecSerial), a load() that
\* follows a compaction of its room returns the merge of the raw sequence of
\* appended updates, as if compaction had never run.
C1_LoadAfterCompactEqualsRawMerge ==
    \A p \in Procs :
        (Loaded(p) /\ ncompact[room[p]] > 0) => res[p] = RawLoad(room[p])

\* C1 witness: a load after a compaction returned a state of both operations
\* while an update appended after the compaction is still pending.
C1_Witness ==
    \E p \in Procs :
        /\ Loaded(p)
        /\ ncompact[room[p]] > 0
        /\ res[p] = State(Ops)
        /\ updates[room[p]] # <<>>

\* C2: an update appended while a compaction of its room was between reading
\* the list and clearing it is contained in every later load().
C2_ConcurrentAppendSurvives ==
    \A r \in Rooms :
        \A id \in duringCompaction[r] : rawLog[r][id] \subseteq StoredDoc(r)

\* C3: no load() reads a snapshot together with an update list that still
\* holds an update already merged into that snapshot.
C3_SnapshotSwapIsAtomic ==
    \A p \in Procs :
        Loaded(p) => EntryIds(rdUpd[p]) \cap rdSnap[p].ids = {}

\* C4: once an update message has been processed without error, a load() of
\* its room that starts afterwards (here: with no operation in progress)
\* returns a state that includes the update.
C4_ProcessedUpdateIsLoaded ==
    (\A p \in Procs : pc[p] = "idle") =>
        \A r \in Rooms : acked[r] \subseteq StoredDoc(r)

\* A publish call is made in this step.
Publishes == Len(published') > Len(published)

Opened(t) == {c \in 1..nctrl : topicOf[c] = t}
Cancelled(t) == {c \in Opened(t) : aborted[c]}
\* Upstream subscriptions of topic t that are open: opened and not cancelled.
OpenSubscriptions(t) == Opened(t) \ Cancelled(t)

\* Upstream subscriptions of topic t that are open: not cancelled, and the
\* body of subscribeToS2Stream that reads and forwards is still running (in a
\* read, forwarding a batch, or in the delay that follows a read).
LiveSubscriptions(t) ==
    {c \in OpenSubscriptions(t) : task[c] # "exited"}

\* The bookkeeping of the two maps: a topic has an activeSubscriptions entry
\* iff its count is above 0, and the entry is its one uncancelled controller.
EntryIffSubscribed ==
    \A t \in Topics :
        /\ Cardinality(OpenSubscriptions(t)) <= 1
        /\ Cardinality(OpenSubscriptions(t)) = 1 <=> subscriberCounts[t] > 0
        /\ OpenSubscriptions(t) = {activeSubscriptions[t]} \ {0}

\* C6: for every topic at most one upstream subscription is open, and one is
\* open iff the subscriber count is above 0.
C6_OneUpstreamIffSubscribed ==
    \A t \in Topics :
        /\ Cardinality(LiveSubscriptions(t)) <= 1
        /\ Cardinality(LiveSubscriptions(t)) = 1 <=> subscriberCounts[t] > 0

\* C7: an upstream subscription is opened exactly on a 0 -> 1 transition of the
\* subscriber count and cancelled exactly on a 1 -> 0 transition.
C7_OpenAndCloseOnlyAtEdges ==
    [][\A t \in Topics :
        /\ (Cardinality(Opened(t))' = Cardinality(Opened(t)) + 1)
             <=> (subscriberCounts[t] = 0 /\ subscriberCounts'[t] = 1)
        /\ (Cardinality(Cancelled(t))' = Cardinality(Cancelled(t)) + 1)
             <=> (subscriberCounts[t] = 1 /\ subscriberCounts'[t] = 0)
        /\ Cardinality(Opened(t))' \in {Cardinality(Opened(t)), Cardinality(Opened(t)) + 1}
        /\ Cardinality(Cancelled(t))' \in
             {Cardinality(Cancelled(t)), Cardinality(Cancelled(t)) + 1}]_vars

\* C7 witness: the count went from 0 up to 2 and back to 0 with one open and
\* one close.
C7_Witness ==
    \E t \in Topics :
        /\ peak[t] = 2
        /\ subscriberCounts[t] = 0
        /\ Cardinality(Opened(t)) = 1
        /\ Cardinality(Cancelled(t)) = 1

\* Record i of topic t has been sent to the publish socket.
Forwarded(t, i) ==
    \E c \in Opened(t) : \E k \in 1..Len(sent[c]) : sent[c][k].idx = i

\* C8: a record with a non-empty body appended while the topic is subscribed
\* (and its subscription's read has been opened) is eventually forwarded,
\* unless the subscriber count drops to 0; stated for runs in which no read
\* fails, so that only reads that end are in play.
C8_AppendedRecordsAreForwarded ==
    \A t \in Topics : \A i \in 1..MaxRecords :
        (i \in live[t] /\ s2log[t][i] # "" /\ nreadfail = 0)
            ~> (Forwarded(t, i) \/ subscriberCounts[t] = 0 \/ nreadfail > 0)

\* C9: after the backoff that follows a failed read, a subscription that was
\* not cancelled reads the log again, and the failure leaves the topic's
\* entry and count unchanged.
C9_RetryAfterBackoff ==
    [][\A c \in Controllers :
        /\ (task[c] = "backoff" /\ task'[c] # "backoff" /\ ~aborted'[c])
             => task'[c] = "read"
        /\ (task[c] # "backoff" /\ task'[c] = "backoff")
             => UNCHANGED <<subscriberCounts, activeSubscriptions>>]_vars

\* C10: the unsubscribe that brings the count to 0 cancels the upstream
\* subscription and discards the topic's entry; a topic whose count is 0 has
\* only cancelled subscriptions; and the forwarding loop of a cancelled
\* subscription eventually exits (a cancellation is never undone, so a loop
\* that stayed running would keep the last conjunct false for ever).
C10_CancelledLoopExits ==
    /\ [][\A t \in Topics :
            (subscriberCounts[t] = 1 /\ subscriberCounts'[t] = 0) =>
                /\ aborted'[activeSubscriptions[t]]
                /\ activeSubscriptions'[t] = 0]_vars
    /\ [](\A t \in Topics : subscriberCounts[t] = 0 => OpenSubscriptions(t) = {})
    /\ []<>(\A c \in Controllers : aborted[c] => task[c] = "exited")

\* C10 witness: a loop that was forwarding a batch when its subscription was
\* cancelled has exited, and the topic's state is gone.
C10_Witness ==
    \E c \in Controllers :
        /\ aborted[c]
        /\ task[c] = "exited"
        /\ Forwarded(topicOf[c], 1)
        /\ subscriberCounts[topicOf[c]] = 0
        /\ activeSubscriptions[topicOf[c]] = 0

\* C11: the subscriber count is never negative; a subscribe event adds exactly
\* one to it, an unsubscribe event at a count above 0 takes exactly one off,
\* an unsubscribe event at count 0 changes neither the count nor any
\* subscription, and nothing else changes the count.
C11_CountIsExact ==
    /\ [](\A t \in Topics : subscriberCounts[t] >= 0)
    /\ [][\A t \in Topics :
            /\ subscribeToS2Stream(t) => subscriberCounts'[t] = subscriberCounts[t] + 1
            /\ unsubscribeFromS2Stream(t) =>
                 IF subscriberCounts[t] = 0
                 THEN UNCHANGED <<subscriberCounts, activeSubscriptions, aborted, task>>
                 ELSE subscriberCounts'[t] = subscriberCounts[t] - 1
            /\ subscriberCounts'[t] # subscriberCounts[t] =>
                 subscribeToS2Stream(t) \/ unsubscribeFromS2Stream(t)]_vars

\* C11 witness: the count went up to 2 and came back to 0, where a further
\* unsubscribe event is accepted.
C11_Witness ==
    \E t \in Topics :
        /\ peak[t] = 2
        /\ subscriberCounts[t] = 0
        /\ activeSubscriptions[t] = 0
        /\ nctrl = 1
        /\ ENABLED unsubscribeFromS2Stream(t)

\* ------------------------------------------------ connection session claims
\* The step handles the OPEN event of connection p.
OpenStep(p) == conn[p] = "new" /\ conn'[p] # "new"
\* The step handles message m of connection p.
MessageStep(p, m) ==
    nreqs' = nreqs + 1 /\ request' = [conn |-> p, event |-> "message", msg |-> m]
\* The step handles the CLOSE event of connection p.
CloseStep(p) ==
    /\ conn[p] = "active" /\ conn'[p] # "active"
    /\ request' = [conn |-> p, event |-> "close", msg |-> NoMessage]

\* Call a is made before call b in the response.
Precedes(resp, a, b) ==
    \E i, j \in 1..Len(resp) : i < j /\ resp[i] = a /\ resp[j] = b
\* The sync messages with inner tag `inner` sent in the response.
Sent(resp, inner) ==
    {i \in 1..Len(resp) :
        /\ resp[i].call = "sendBinary"
        /\ resp[i].bytes.outer = messageSync
        /\ resp[i].bytes.inner = inner}
\* Room r has persisted state: a snapshot or a pending update.
PersistedStateExists(r) == snapshot[r].present \/ updates[r] # <<>>

\* C12: the response to every OPEN event subscribes the connection to the
\* room's channel and then sends a STEP1 whose state vector is the empty one,
\* whatever the store holds and whether or not loading from it fails.
C12_OpenSendsEmptyStep1 ==
    request.event = "open" =>
        Precedes(response, CallSubscribe(room[request.conn]),
                 SendBinary(encodeSyncStep1(emptyStateVector)))

\* C13: on an OPEN whose load does not fail, a STEP2 is sent iff the room has
\* persisted state; it carries that state and follows the STEP1 of the same
\* response.
C13_OpenSendsStep2IffPersisted ==
    [][\A p \in Procs :
        (OpenStep(p) /\ nfail' = nfail) =>
            LET r == room[p]
                step2 == SendBinary(encodeSyncStep2(MergedDoc(snapshot[r], updates[r])))
            IN /\ Sent(response', messageYjsSyncStep2) # {} <=> PersistedStateExists(r)
               /\ \A i \in Sent(response', messageYjsSyncStep2) :
                    /\ response'[i] = step2
                    /\ \E j \in Sent(response', messageYjsSyncStep1) : j < i]_vars

\* C14: without persistence an inbound STEP1 produces no response event and
\* no broadcast.
C14_PureRelayIgnoresStep1 ==
    [][\A p \in Procs, m \in SessionMessages :
        (MessageStep(p, m) /\ IsStep1(m) /\ ~deployment.persistence) =>
            response' = <<>> /\ published' = published]_vars

\* The response is empty or one STEP2 sent to the requesting connection.
AtMostOneStep2(resp) ==
    /\ Len(resp) <= 1
    /\ \A i \in 1..Len(resp) : i \in Sent(resp, messageYjsSyncStep2)
\* The store is left as it was: nothing appended, nothing compacted.
StoreUnchanged == UNCHANGED <<snapshot, updates, rawLog>>
\* The step handles a STEP1 of connection p in a deployment with persistence.
Step1WithPersistence(p, m) ==
    MessageStep(p, m) /\ IsStep1(m) /\ deployment.persistence

BroadcastsVerbatim(r, m) == published' = Append(published, [channel |-> r, bytes |-> m])
\* The step handles awareness message m of connection p.
AwarenessStep(p, m) == MessageStep(p, m) /\ IsAwareness(m)

C17_UnknownTagsDropped ==
    [][\A p \in Procs, m \in SessionMessages :
        (MessageStep(p, m) /\ IsUnknown(m)) =>
            /\ StoreUnchanged
            /\ published' = published
            /\ response' = <<>>
            /\ conn'[p] = "active"
            /\ connections' = connections]_vars

\* A sync message with an unknown inner tag was dropped by a handler with
\* persistence, and the connection can take the next message.
C17_Witness ==
    /\ request.event = "message"
    /\ request.msg.outer = messageSync /\ IsUnknown(request.msg)
    /\ deployment.persistence
    /\ published = <<>>
    /\ ENABLED (handler_message(request.conn) \/ POST_message(request.conn))

\* C18: the CLOSE of a connection to which no client id was attributed emits
\* no awareness-departure broadcast (no broadcast at all).
C18_NoDepartureWithoutClientId ==
    [][\A p \in Procs :
        (CloseStep(p) /\ connections[room[p]][p].awarenessClientId = Undefined) =>
            published' = published]_vars

\* The doc handler closed a registered connection whose only message was an
\* awareness payload of two changes: that broadcast is the only one.
C18_Witness ==
    /\ deployment.handler = "doc"
    /\ request.event = "close" /\ conn[request.conn] = "closed"
    /\ \A q \in Procs \ {request.conn} : conn[q] = "new"
    /\ nreqs = 1
    /\ Len(published) = 1 /\ Len(published[1].bytes.changes) = 2

\* C19: the CLOSE (without a store failure) of a connection to which a client
\* id was attributed, whatever the id, broadcasts on the room's channel
\* exactly one awareness message, of a single change for that id with the
\* null state.
C19_DepartureForEveryClientId ==
    [][\A p \in Procs :
        LET id == connections[room[p]][p].awarenessClientId
        IN (CloseStep(p) /\ id # Undefined /\ nfail' = nfail) =>
            /\ Len(published') = Len(published) + 1
            /\ SubSeq(published', 1, Len(published)) = published
            /\ LET departure == published'[Len(published')]
               IN /\ departure.channel = room[p]
                  /\ IsAwareness(departure.bytes)
                  /\ Len(departure.bytes.changes) = 1
                  /\ departure.bytes.changes[1].clientID = id
                  /\ departure.bytes.changes[1].state = "null"]_vars

\* The step handles awareness message m of connection p in the doc handler,
\* the one handler that keeps connection sessions.
SessionAwarenessStep(p, m) == AwarenessStep(p, m) /\ deployment.handler = "doc"

C21_ClosedIsTerminal ==
    [][\A p \in Procs :
        /\ \A m \in SessionMessages :
            (MessageStep(p, m) /\ conn[p] = "closed") =>
                StoreUnchanged /\ published' = published /\ response' = <<>>
        /\ CloseStep(p) => connections'[room[p]][p] = NoEntry]_vars

\* The terminal part of C21 alone: no event of a connection is handled after
\* its CLOSE, in the same body or in a later one.
ClosedHandlesNothing ==
    [][\A p \in Procs : conn[p] = "closed" => request' = request \/ request'.conn # p]_vars

\* The event the last handled request step was about.
HandledEvent == [event |-> request.event, msg |-> request.msg]
\* The step is a step of the invocation of connection p that is inside a body.
BodyStep(p) == pos[p] = "recv" /\ (unread'[p] # unread[p] \/ pos'[p] # pos[p])

\* C22: the events of one request body are handled in arrival order and one
\* at a time: inside a body, the events handled so far followed by the
\* events not read yet are the body as it arrived; every step of the
\* invocation handles exactly the first event not read yet; and no step holds
\* the store writes or the broadcasts of two events.
C22_InArrivalOrder ==
    /\ [](\A p \in Procs : pos[p] = "recv" => arrived[p] = handled[p] \o unread[p])
    /\ [][\A p \in Procs :
            BodyStep(p) => request'.conn = p /\ HandledEvent' = Head(unread[p])]_vars
    /\ [][/\ Len(published') <= Len(published) + 1
          /\ \A r \in Rooms : Len(rawLog'[r]) <= Len(rawLog[r]) + 1]_vars

\* A body of OPEN and two updates: the first update is stored and broadcast,
\* the second is not read yet.
C22_Witness ==
    \E p \in Procs :
        /\ pos[p] = "recv"
        /\ Len(handled[p]) = 2 /\ IsUpdate(handled[p][2].msg)
        /\ Len(unread[p]) = 1 /\ IsUpdate(unread[p][1].msg)
        /\ unread[p][1] # handled[p][2]
        /\ Len(rawLog[room[p]]) = 1
        /\ published = <<[channel |-> room[p], bytes |-> handled[p][2].msg]>>

\* C23: an inbound STEP2/UPDATE whose persist fails is dropped: the step
\* that handles it broadcasts nothing and leaves the store without the update
\* (the persist is not tried again).
C23_FailedPersistDropsMessage ==
    [][\A p \in Procs, m \in SessionMessages :
        (MessageStep(p, m) /\ IsUpdate(m) /\ nfail' # nfail) =>
            published' = published /\ StoreUnchanged]_vars

\* C24: a store failure while an event of a request is handled is contained:
\* the invocation does not fail, it goes on with the events left in the body,
\* and nothing but the message in hand is lost.
C24_FailuresAreContained ==
    [][\A p \in Procs :
        (nfail' # nfail /\ request'.conn = p) =>
            /\ conn'[p] # "failed"
            /\ \A events \in Inbound(p) :
                (HandledEvent' = Head(events) /\ HandledEvent'.event # "close") =>
                    unread'[p] = Tail(events)]_vars

\* ------------------------------------------------------------ compaction threshold
AllIdle == \A p \in Procs : pc[p] = "idle"
\* The appends of room r so far ran one after the other and were not failed.
FreshRun(r, n) == AllIdle /\ nfail = 0 /\ Len(rawLog[r]) = n

\* C25: with threshold T, the append that brings the pending count to T, and
\* no earlier one, compacts before it returns: after T serial appends to a
\* fresh room there has been exactly one compaction, the update list is empty
\* and the snapshot is present; after fewer appends there has been none.
C25_CompactsAtThreshold ==
    \A r \in Rooms :
        /\ FreshRun(r, compactionThreshold) =>
               ncompact[r] = 1 /\ updates[r] = <<>> /\ snapshot[r] # NoSnapshot
        /\ \A n \in 0..(compactionThreshold - 1) :
               FreshRun(r, n) =>
                   ncompact[r] = 0 /\ Len(updates[r]) = n /\ snapshot[r] = NoSnapshot

C25_PeerCompactsAtThreshold == impl = "peer" => C25_CompactsAtThreshold

\* ------------------------------------------------------------ absent state
\* getState(docName) on the store as it stands.
getState(r) == GetStateReturn(MergedDoc(snapshot[r], updates[r]))
LoadsFromStore == deployment.handler = "peer" /\ deployment.persistence

Frame(type, content) ==
    type \o <<" ">> \o toString16(Utf8Length(content)) \o CRLF \o content \o CRLF
\* The step encodes the next event of plain.
EncodeStep == nenc' = nenc + 1

\* C27: encode(type, content) writes "<type> <HEX>\r\n<content>\r\n" with the
\* type it is given, whatever the type, HEX being the uppercase hexadecimal
\* byte length of the content; encode(type) without content writes "<type>\r\n".
C27_EncodeWritesGivenType ==
    [][EncodeStep =>
        LET e == plain[nenc + 1]
        IN reqText' = reqText \o (IF e.content = NoContent
                                   THEN e.type \o CRLF
                                   ELSE Frame(e.type, e.content))]_vars

\* Events without content are written as their type and a line end.
EncodeWithoutContent ==
    [][\A e \in PlainEvents :
        (EncodeStep /\ e = plain[nenc + 1] /\ e.content = NoContent) =>
            reqText' = reqText \o e.type \o CRLF]_vars

\* C28: decoding the encoding of a sequence of events gives the sequence
\* back, for events without content and events whose content is not empty,
\* spaces and CR LF in the content included.
C28_RoundTrip == at = "events" => wsEvents = plain

\* The round trip of TEXT events and of events without content.
TextRoundTrip ==
    (/\ at = "events"
     /\ \A i \in 1..Len(plain) : plain[i].type = TEXT \/ plain[i].content = NoContent)
        => wsEvents = plain

\* The events of a well-formed frame, and of no frame.
EventsOf(frame) ==
    IF frame = <<>> THEN <<>>
    ELSE IF frame = OPEN \o CRLF THEN <<Event(OPEN, NoContent)>>
    ELSE IF frame = PING \o CRLF THEN <<Event(PING, NoContent)>>
    ELSE IF frame = CloseFrame THEN <<Event(CLOSE, statusCode)>>
    ELSE IF frame = TextFrame(JoinText) THEN <<Event(TEXT, JoinText)>>
    ELSE <<Event(TEXT, MessageText)>>
\* The request in hand has the malformed frame between frames f and g.
MalformedBetween(f, g) == nsock > 0 /\ at # "parse" /\ reqText = f \o MalformedFrame \o g

\* C29: an event whose length field is no hexadecimal number yields no event;
\* the events decoded before it are kept and the events after it are decoded.
C29_MalformedLengthSkipped ==
    \A f, g \in Frames \cup {<<>>} :
        MalformedBetween(f, g) => wsEvents = EventsOf(f) \o EventsOf(g)

\* The events in front of a malformed one are kept.
EarlierEventsKept ==
    \A f, g \in Frames \cup {<<>>} :
        MalformedBetween(f, g) =>
            Len(wsEvents) >= Len(EventsOf(f))
            /\ SubSeq(wsEvents, 1, Len(EventsOf(f))) = EventsOf(f)

\* The request in hand, or the one handled last, had an empty body.
EmptyBody == nsock > 0 /\ reqText = <<>>

\* C30: a request with an empty body is handled as a request of the single
\* event OPEN: the response holds the one OPEN event, no session is created
\* or removed, and nothing is published.
C30_EmptyBodyIsOpen ==
    /\ [](EmptyBody /\ at = "events" => wsEvents = <<Event(OPEN, NoContent)>>)
    /\ [](EmptyBody /\ at = "idle" => responseEvents = OPEN \o CRLF)
    /\ [][EmptyBody' /\ ~Expire => connState' = connState /\ appended' = appended]_vars
C30_Witness ==
    /\ EmptyBody /\ at = "idle"
    /\ nsock = 2
    /\ \E k \in ConnectionIds : connState[k].present
    /\ responseEvents = OPEN \o CRLF

\* ------------------------------------------------------------ forwarding loop
\* The records of a sequence whose body is not empty.
NonEmpty(recs) == SelectSeq(recs, LAMBDA rec : rec.body # "")
\* The message due for each record of a sequence: 'J', then the record's body.
Marked(recs) ==
    [k \in 1..Len(recs) |-> [idx |-> recs[k].idx,
                              bytes |-> [marker |-> "J", body |-> recs[k].body]]]
\* The records of its topic's stream that loop c reads in a step that moves
\* its read position forward.
ReadInStep(c) ==
    IF task[c] = "stream" /\ cursor'[c] > cursor[c]
    THEN [i \in 1..(cursor'[c] - cursor[c]) |->
             [idx |-> cursor[c] + i, body |-> s2log[topicOf[c]][cursor[c] + i]]]
    ELSE <<>>
\* What loop c has sent, followed by what it has yet to send of the batch it
\* is forwarding.
Due(c) == sent[c] \o Marked(NonEmpty(batch[c]))

C36_PendingBelowThreshold ==
    \A r \in Rooms : (AllIdle /\ nfail = 0) => Len(updates[r]) < compactionThreshold

C36_PeerPendingBelowThreshold == impl = "peer" => C36_PendingBelowThreshold
C36_DocPendingAtMostThreshold ==
    \A r \in Rooms : (AllIdle /\ nfail = 0) => Len(updates[r]) <= compactionThreshold

\* ------------------------------------------------------------ overlapping operations
\* The operations of the updates whose append to the room of invocation p had
\* completed when p's load began.
AppendedBefore(p) == UNION {rawLog[room[p]][i] : i \in 1..began[p].appended}
\* A compaction of the room completed while p's load was under way.
OverlappedCompaction(p) == ncompact[room[p]] > began[p].compactions
\* The store holds every update appended so far.
NothingLost(r) == UNION {rawLog[r][i] : i \in 1..Len(rawLog[r])} \subseteq StoredDoc(r)

\* C39: a load() that overlaps a compaction of its room returns a state that
\* contains every update whose append completed before the load began.
C39_LoadOverlappingCompaction ==
    \A p \in Procs :
        (Loaded(p) /\ OverlappedCompaction(p)) => AppendedBefore(p) \subseteq res[p].state

\* The same for loads of a room whose store has lost nothing.
LoadOverlappingCompactionOfIntactStore ==
    \A p \in Procs :
        (Loaded(p) /\ OverlappedCompaction(p) /\ NothingLost(room[p]))
            => AppendedBefore(p) \subseteq res[p].state

\* A load that overlaps no compaction of a room whose store has lost nothing.
LoadWithoutCompaction ==
    \A p \in Procs :
        (Loaded(p) /\ ~OverlappedCompaction(p) /\ NothingLost(room[p])
           /\ \A q \in Procs : pc[q] \notin {"compact_del", "compactDoc_exec"})
            => AppendedBefore(p) \subseteq res[p].state


\* A snapshot write that keeps everything the replaced snapshot held.
Covers(new, old) == old.ids \subseteq new.ids /\ old.state \subseteq new.state

\* C40: when two compactions of one room overlap, the stored snapshot never
\* regresses: every snapshot write contains all the updates of the snapshot it
\* replaces.
C40_SnapshotNeverRegresses ==
    [][\A r \in Rooms : Covers(snapshot'[r], snapshot[r])]_vars


\* ---- departure clock
\* The departure broadcast of the step: the message appended to published.
Departure == published'[Len(published')].bytes
\* Connection p closes with a client id attributed and the broadcast goes out.
DepartureStep(p) ==
    /\ CloseStep(p)
    /\ connections[room[p]][p].awarenessClientId # Undefined
    /\ Len(published') = Len(published) + 1

\* C35 as stated: the awareness-departure message broadcast on CLOSE carries
\* clock 0 for the departed client id, whatever clock that client last sent.
C35_DepartureClockIsZero ==
    [][\A p \in Procs : DepartureStep(p) => Departure.changes[1].clock = 0]_vars

\* C35 amended: the departure message carries clock 1 (the hardcoded last
\* clock 0, plus one) for the departed client id, whatever clock that client
\* last sent.
C35_DepartureClockIsOne ==
    [][\A p \in Procs : DepartureStep(p) =>
        /\ Departure.changes[1].clientID = connections[room[p]][p].awarenessClientId
        /\ Departure.changes[1].clock = 1]_vars

\* A connection whose client last sent clock 2 closed: the departure
\* broadcast for that client id carries clock 1.
C35_Witness ==
    /\ request.event = "close" /\ conn[request.conn] = "closed"
    /\ Len(published) = 2
    /\ \E id \in ClientIds :
        /\ published[1].bytes = AwarenessMessage(<<Change(id, 2, "s")>>)
        /\ published[2].bytes = AwarenessMessage(<<Change(id, 1, "null")>>)


\* ---- chat sessions
\* The chat endpoint handles the CLOSE event it is at.
ChatCloseStep == Handling /\ event.type = CLOSE /\ (evIdx' # evIdx \/ at' # at)
\* The unsubscribe directive for a room, as a TEXT event of the response.
UnsubscribeDirective(roomName) ==
    TEXT \o <<" ">> \o toString16(Len(<<"c", ":">> \o unsubscribeMsg(roomName))) \o CRLF
    \o <<"c", ":">> \o unsubscribeMsg(roomName) \o CRLF
\* The record of the leave message of a session.
LeaveRecord(info) == [channel |-> channelOf(info.room), message |-> leaveMessage(info.username)]
\* The session of the connection is gone, the others are as they were.
SessionDeleted ==
    connState' = [k \in ConnectionIds |-> IF k = connectionId THEN NoState ELSE connState[k]]

ChatEventStep == Handling /\ (evIdx' # evIdx \/ at' # at)
\* The entry a join event asks for: data.username || "Anonymous" in
\* data.room || "general".
JoinedAs(content) ==
    [present |-> TRUE,
     username |-> OrElse(JSONparse(content).username, Anonymous),
     room |-> OrElse(JSONparse(content).room, general)]
\* The step is join(k, ...): a join event of connection k whose SETEX succeeds.
TrackerJoin(k) ==
    /\ ChatEventStep /\ connectionId = k
    /\ event.type = TEXT /\ HasContent(event.content)
    /\ JSONparse(event.content).valid /\ JSONparse(event.content).type = "join"
    /\ storeError' # "setConnectionState"
\* The step is leave(k): the CLOSE of connection k, which has an entry, whose
\* GET and DEL succeed.
TrackerLeave(k) ==
    /\ ChatCloseStep /\ connectionId = k
    /\ connState[k].present
    /\ storeError' \notin {"getConnectionState", "deleteConnectionState"}
\* The TTL of k's entry lapses.
TrackerExpiry(k) == connState[k].present /\ UNCHANGED <<at, evIdx, nsock>> /\ connState' # connState

\* C31: get(c) is the display name and room of the most recent join(c, ...)
\* that no leave(c) and no expiry of its TTL followed, and absent otherwise:
\* a join of c sets the entry of c to its name and room, a leave or the
\* expiry of c makes it absent, and no other step changes what get(c)
\* returns; in particular a join, a leave or an expiry of another connection
\* id does not.
C31_GetReturnsLastJoin ==
    /\ \A k \in ConnectionIds : getConnectionState(connState, k) = NoState
    /\ [][\A k \in ConnectionIds :
            IF TrackerJoin(k)
            THEN getConnectionState(connState', k) = JoinedAs(event.content)
            ELSE IF TrackerLeave(k)
            THEN getConnectionState(connState', k) = NoState
            ELSE \/ getConnectionState(connState', k) = getConnectionState(connState, k)
                 \/ /\ TrackerExpiry(k)
                    /\ getConnectionState(connState', k) = NoState
                    /\ \A j \in ConnectionIds \ {k} : connState'[j] = connState[j]]_vars

\* Connection k1 joined the default room and then room "r" as "u", after k2
\* joined the default room: each id has the entry of its own last join.
C31_Witness ==
    /\ at = "idle" /\ nsock = 2 /\ connectionId = "k1"
    /\ reqText = TextFrame(JoinText) \o TextFrame(JoinRoomText)
    /\ getConnectionState(connState, "k1") = [present |-> TRUE, username |-> <<"u">>, room |-> <<"r">>]
    /\ getConnectionState(connState, "k2") = [present |-> TRUE, username |-> Anonymous, room |-> general]


\* ---- parser termination
\* The offset the next pass of the parser's loop leaves.
AfterPass == ParsePass(reqText, offset).offset

\* C38: parseWebSocketEvents terminates on every finite body: every pass of
\* its loop that does not end the loop strictly increases the offset, so the
\* list it returns is finite.
C38_EveryPassAdvances ==
    at = "parse" => ~LessThan(AfterPass, Len(reqText)) \/ LessThan(offset, AfterPass)

\* On a body whose events all end with CR LF every pass increases the offset
\* or ends the loop.
TerminatedBodiesAdvance ==
    (at = "parse" /\ reqText # TruncatedFrame) =>
        ~LessThan(AfterPass, Len(reqText)) \/ LessThan(offset, AfterPass)
\* The loop of the parser is stuck: the pass pushes an event and leaves the
\* offset where it was.
ParserStuck ==
    /\ at = "parse" /\ AfterPass = offset
    /\ Len(wsEvents) = MaxParsed


\* ---- session lifetime
\* A request that arrived is handled to its end: the handler goes on with
\* the events of the body it is in.
BodyInHand == (\E p \in Procs : pos[p] = "recv") /\ NextSession
\* The collaborative-room handlers under that scheduling.  The code sets no
\* TTL on yjs:connections:<room>, so no step removes an entry but the CLOSE.
SpecSessionFair == SpecSession /\ WF_vars(BodyInHand)

\* C32: every connection session entry, the per-room entry written on OPEN
\* of a collaborative room included, is eventually deleted, by CLOSE or by
\* the lapse of a TTL when no CLOSE ever arrives.
C32_SessionEntryEventuallyDeleted ==
    \A r \in Rooms : \A p \in Procs :
        connections[r][p].present ~> ~connections[r][p].present

\* The chat endpoint with TTLs that lapse: an entry that stays is removed.
SpecSocketFair == SpecSocket /\ \A k \in ConnectionIds : WF_vars(ExpireKey(k))
\* The chat session of a connection id is eventually deleted.
ChatSessionEventuallyDeleted ==
    \A k \in ConnectionIds : connState[k].present ~> ~connState[k].present


\* ------------------------------------------------------------ awareness store
\* The states a client stores; null is the state of a client that leaves.
AwarenessStates == {"s", "t"}
null == "null"
AwarenessFrame == UNCHANGED <<relayVars, bridgeVars, sessionVars, chatVars>>

\* Mutant: HDEL removes every field of the hash.
HDEL_All(hash, c) == [d \in DOMAIN hash |-> Absent]
\* r.hdel(awarenessKey(room), clientId.toString())
HDEL(hash, c) == [hash EXCEPT ![c] = Absent]
\* r.hset(awarenessKey(room), clientId.toString(), JSON.stringify(state))
HSET(hash, c, st) == [hash EXCEPT ![c] = st]
\* Redis removes a hash when its last field is removed.
Exists(hash) == \E c \in DOMAIN hash : hash[c] # Absent

\* getAwarenessStates(room): the clients of the hash and their states.
getAwarenessStates(r) == {<<c, awareness[r][c]>> : c \in {d \in ClientIds : awareness[r][d] # Absent}}

\* storeAwarenessState(room, clientId, state): HDEL for the null state, else
\* HSET and then EXPIRE of the whole hash.  A call that rejects ends the
\* function: after a rejected EXPIRE the field is written and the TTL is not.
storeAwarenessState(r, c, st) ==
    /\ \E failing \in {NoError, "hdel", "hset", "expire"} :
        /\ failing = "hdel" => st = null
        /\ failing \in {"hset", "expire"} => st # null
        /\ called' = [room |-> r, clientId |-> c, state |-> st, failing |-> failing]
        /\ IF failing \in {"hdel", "hset"}
           THEN UNCHANGED <<awareness, deadline, since, quiet, expireFailed>>
           ELSE IF st = null
           THEN LET hash == HDEL(awareness[r], c)
                IN /\ awareness' = [awareness EXCEPT ![r] = hash]
                   /\ deadline' = [deadline EXCEPT ![r] = IF Exists(hash) THEN @ ELSE NoTTL]
                   /\ expireFailed' = [expireFailed EXCEPT ![r] = Exists(hash) /\ @]
                   /\ UNCHANGED <<since, quiet>>
           ELSE /\ awareness' = [awareness EXCEPT ![r] = HSET(@, c, st)]
                /\ since' = [since EXCEPT ![r][c] = 0]
                /\ IF failing = "expire"
                   THEN /\ expireFailed' = [expireFailed EXCEPT ![r] = TRUE]
                        /\ UNCHANGED <<deadline, quiet>>
                   ELSE /\ deadline' = [deadline EXCEPT ![r] = AwarenessTTL]
                        /\ quiet' = [quiet EXCEPT ![r] = 0]
                        /\ expireFailed' = [expireFailed EXCEPT ![r] = FALSE]
    /\ AwarenessFrame

\* One unit of time passes: a hash whose time is up is removed with all its
\* fields.
Tick ==
    /\ since' = [r \in Rooms |-> [c \in ClientIds |->
                    IF since[r][c] < Long THEN since[r][c] + 1 ELSE Long]]
    /\ quiet' = [r \in Rooms |-> IF quiet[r] < Long THEN quiet[r] + 1 ELSE Long]
    /\ awareness' = [r \in Rooms |->
                        IF deadline[r] = 1 THEN [c \in ClientIds |-> Absent] ELSE awareness[r]]
    /\ deadline' = [r \in Rooms |->
                        IF deadline[r] = NoTTL \/ deadline[r] = 1 THEN NoTTL
                        ELSE deadline[r] - 1]
    /\ expireFailed' = [r \in Rooms |-> deadline[r] # 1 /\ expireFailed[r]]
    /\ called' = NoCall
    /\ AwarenessFrame

NextAwareness ==
    \/ \E r \in Rooms, c \in ClientIds, st \in AwarenessStates \cup {null} :
            storeAwarenessState(r, c, st)
    \/ Tick

InitAwareness == Init /\ impl = "doc"
SpecAwareness == InitAwareness /\ [][NextAwareness]_vars

\* ---- awareness lifetime
\* The step is storeAwarenessState(r, c, st) and its HSET or HDEL succeeds.
Stored(r, c, st) ==
    /\ called'.room = r /\ called'.clientId = c /\ called'.state = st
    /\ called'.failing \notin {"hset", "hdel"}
\* The other clients' states are as they were.
OthersUnchanged(r, c) == \A d \in ClientIds \ {c} : awareness'[r][d] = awareness[r][d]

====
